---- MODULE Spec2Model ----
(***************************************************************************)
(* The MCP session client of the Slack bot                                 *)
(* (src/slack-bot-for-aws-news-socket-mode/bot.py, class MCPClient):       *)
(* the handshake (initialize, notifications/initialized), tools/call, the  *)
(* decoding of JSON and server-sent-event responses, and the conversion of *)
(* every exception into a returned value.                                  *)
(*                                                                         *)
(* The client's coroutines are cut at their awaits (the three              *)
(* self.client.post calls): the code between two awaits is one action.     *)
(* The server is the environment: every response is drawn from a           *)
(* catalogue of HTTP responses.                                            *)
(***************************************************************************)
EXTENDS Integers, Sequences, FiniteSets, TLC

(***************************************************************************)
(* Bounds of the model.                                                    *)
(***************************************************************************)
\* Invocations (initialize() or call_tool()) one run of the model starts.
MaxCalls == 3

(***************************************************************************)
(* Strings. TLC treats a string as a sequence of characters for \o, Len    *)
(* and SubSeq.                                                             *)
(***************************************************************************)
\* str.startswith(p)
StartsWith(s, p) == Len(s) >= Len(p) /\ SubSeq(s, 1, Len(p)) = p

\* p in s, for two Python strings
Contains(s, p) ==
    \E i \in 1..(Len(s) - Len(p) + 1) : SubSeq(s, i, i + Len(p) - 1) = p

\* The characters json.loads and str.strip() treat as white space.
IsSpace(c) == c \in {" ", "\t", "\r", "\n"}

RECURSIVE LStrip(_)
\* str.lstrip()
LStrip(s) ==
    IF Len(s) > 0 /\ IsSpace(SubSeq(s, 1, 1))
    THEN LStrip(SubSeq(s, 2, Len(s)))
    ELSE s

RECURSIVE NatToStr(_)
\* The decimal digits of a natural number.
NatToStr(n) ==
    IF n < 10 THEN SubSeq("0123456789", n + 1, n + 1)
    ELSE NatToStr(n \div 10) \o SubSeq("0123456789", (n % 10) + 1, (n % 10) + 1)

\* str(n) of a Python int
IntToStr(n) == IF n < 0 THEN "-" \o NatToStr(-n) ELSE NatToStr(n)

(***************************************************************************)
(* JSON values as Python holds them after json.loads: every value is a     *)
(* record of one shape, t the type, s the characters of a str, n the       *)
(* number of an int (1 or 0 for a bool) and kids the entries of a dict     *)
(* (key k, value v, in insertion order) or the items of a list (k unused). *)
(***************************************************************************)
JNull == [t |-> "null", s |-> "", n |-> 0, kids |-> <<>>]
JBool(b) == [t |-> "bool", s |-> "", n |-> IF b THEN 1 ELSE 0, kids |-> <<>>]
JInt(i) == [t |-> "int", s |-> "", n |-> i, kids |-> <<>>]
JStr(str) == [t |-> "str", s |-> str, n |-> 0, kids |-> <<>>]
JList(items) ==
    [t |-> "list", s |-> "", n |-> 0,
     kids |-> [i \in 1..Len(items) |-> [k |-> "", v |-> items[i]]]]
\* entries: a sequence of <<key, value>> pairs
JDict(entries) ==
    [t |-> "dict", s |-> "", n |-> 0,
     kids |-> [i \in 1..Len(entries) |-> [k |-> entries[i][1], v |-> entries[i][2]]]]

\* isinstance(v, dict), isinstance(v, list), isinstance(v, str)
IsDict(v) == v.t = "dict"
IsList(v) == v.t = "list"
IsStr(v) == v.t = "str"

\* key in d, for a dict d
HasKey(d, key) == \E i \in 1..Len(d.kids) : d.kids[i].k = key

\* d[key], for a dict d that has the key
Get(d, key) == d.kids[CHOOSE i \in 1..Len(d.kids) : d.kids[i].k = key].v

\* len(l) and l[0], for a list l
ListLen(l) == Len(l.kids)
First(l) == l.kids[1].v

\* The name type(v).__name__ that Python's error messages print.
TypeName(v) ==
    CASE v.t = "null" -> "NoneType"
      [] v.t = "bool" -> "bool"
      [] v.t = "int" -> "int"
      [] v.t = "str" -> "str"
      [] v.t = "list" -> "list"
      [] v.t = "dict" -> "dict"

(***************************************************************************)
(* What an expression or a call yields: a value, or a raised exception     *)
(* (its class and str(e)). httpx's exceptions are of class "HTTPError".    *)
(***************************************************************************)
NoExc == [cls |-> "", msg |-> ""]
Ret(v) == [kind |-> "return", val |-> v, exc |-> NoExc]
Raise(cls, msg) == [kind |-> "raise", val |-> JNull, exc |-> [cls |-> cls, msg |-> msg]]

\* isinstance(e, httpx.HTTPError)
IsHTTPError(exc) == exc.cls = "HTTPError"
\* isinstance(e, Exception)
IsException(exc) ==
    exc.cls \in {"HTTPError", "JSONDecodeError", "TypeError", "AttributeError", "ValueError",
                 "APIConnectionError"}

(***************************************************************************)
(* json.dumps(v, indent=2) and str(v), on values whose strings need no     *)
(* escaping (letters, digits, spaces and punctuation other than the quote  *)
(* and the backslash).                                                     *)
(***************************************************************************)
RECURSIVE Spaces(_)
Spaces(n) == IF n = 0 THEN "" ELSE " " \o Spaces(n - 1)

RECURSIVE DumpsAt(_, _)
RECURSIVE DumpKids(_, _, _, _)
\* The entries i.. of a dict or a list, one per line at indentation ind.
DumpKids(kids, i, isDict, ind) ==
    IF i > Len(kids) THEN ""
    ELSE Spaces(ind)
         \o (IF isDict THEN "\"" \o kids[i].k \o "\": " ELSE "")
         \o DumpsAt(kids[i].v, ind)
         \o (IF i < Len(kids) THEN ",\n" ELSE "\n")
         \o DumpKids(kids, i + 1, isDict, ind)

\* json.dumps(v, indent=2) of a value that starts at indentation ind.
DumpsAt(v, ind) ==
    CASE v.t = "null" -> "null"
      [] v.t = "bool" -> (IF v.n = 1 THEN "true" ELSE "false")
      [] v.t = "int" -> IntToStr(v.n)
      [] v.t = "str" -> "\"" \o v.s \o "\""
      [] v.t = "list" ->
            IF Len(v.kids) = 0 THEN "[]"
            ELSE "[\n" \o DumpKids(v.kids, 1, FALSE, ind + 2) \o Spaces(ind) \o "]"
      [] v.t = "dict" ->
            IF Len(v.kids) = 0 THEN "{}"
            ELSE "{\n" \o DumpKids(v.kids, 1, TRUE, ind + 2) \o Spaces(ind) \o "}"

\* json.dumps(v, indent=2)
Dumps(v) == DumpsAt(v, 0)

RECURSIVE PyRepr(_)
RECURSIVE ReprKids(_, _, _)
ReprKids(kids, i, isDict) ==
    IF i > Len(kids) THEN ""
    ELSE (IF isDict THEN "'" \o kids[i].k \o "': " ELSE "")
         \o PyRepr(kids[i].v)
         \o (IF i < Len(kids) THEN ", " ELSE "")
         \o ReprKids(kids, i + 1, isDict)

\* repr(v)
PyRepr(v) ==
    CASE v.t = "null" -> "None"
      [] v.t = "bool" -> (IF v.n = 1 THEN "True" ELSE "False")
      [] v.t = "int" -> IntToStr(v.n)
      [] v.t = "str" -> "'" \o v.s \o "'"
      [] v.t = "list" -> "[" \o ReprKids(v.kids, 1, FALSE) \o "]"
      [] v.t = "dict" -> "{" \o ReprKids(v.kids, 1, TRUE) \o "}"

\* str(v), which is also what an f-string prints for {v}
PyStr(v) == IF v.t = "str" THEN v.s ELSE PyRepr(v)

(***************************************************************************)
(* Python's operators on a decoded value, with the exceptions they raise   *)
(* (messages as CPython 3.11 and later word them).                         *)
(***************************************************************************)
\* Whether `key in v` raises TypeError: v is no container.
InRaises(v) == v.t \in {"null", "bool", "int"}
InError(v) == Raise("TypeError", "argument of type '" \o TypeName(v) \o "' is not iterable")

\* `key in v` for a str key, where it does not raise: a key of a dict, an
\* item of a list, a substring of a str.
InHolds(key, v) ==
    CASE v.t = "dict" -> HasKey(v, key)
      [] v.t = "list" -> \E i \in 1..Len(v.kids) : v.kids[i].v = JStr(key)
      [] v.t = "str" -> Contains(v.s, key)
      [] OTHER -> FALSE

\* v[key] for a str key, after `key in v` held.
Subscript(v, key) ==
    CASE v.t = "dict" -> Ret(Get(v, key))
      [] v.t = "list" -> Raise("TypeError", "list indices must be integers or slices, not str")
      [] OTHER -> Raise("TypeError", "string indices must be integers, not 'str'")

\* Whether len(v) raises TypeError.
LenRaises(v) == v.t \in {"null", "bool", "int"}
LenError(v) == Raise("TypeError", "object of type '" \o TypeName(v) \o "' has no len()")

(***************************************************************************)
(* HTTP responses, as httpx hands them to the client. exc is the exception *)
(* self.client.post raises ("" when a response arrives), status the status *)
(* code, sid the Mcp-Session-Id response header, ctype the content-type    *)
(* header, body the body as response.json() decodes it (NotJson when it is *)
(* no JSON text) and lines the body as text, one entry per line.           *)
(***************************************************************************)
\* A body that is no JSON text: response.json() and json.loads raise.
NotJson == [t |-> "notjson", s |-> "", n |-> 0, kids |-> <<>>]
\* No payload after a line's head.
NoPayload == [t |-> "nothing", s |-> "", n |-> 0, kids |-> <<>>]
\* A response header that is absent: headers.get(...) returns None.
NoHeader == "<absent>"
\* self.session_id = None
None == "<None>"
\* A request without an id member (a notification).
NoId == -1

HttpResponse(status, sid, ctype, body, lines) ==
    [exc |-> "", msg |-> "", status |-> status, sid |-> sid, ctype |-> ctype,
     body |-> body, lines |-> lines]
\* self.client.post raised: a subclass of httpx.HTTPError with message msg.
TransportError(msg) ==
    [exc |-> "HTTPError", msg |-> msg, status |-> 0, sid |-> NoHeader, ctype |-> "",
     body |-> NotJson, lines |-> <<>>]

\* response.raise_for_status(): httpx raises HTTPStatusError unless 2xx.
IsSuccess(status) == status >= 200 /\ status < 300
StatusError(status) == Raise("HTTPError", "status " \o IntToStr(status))

\* response.json()
JsonDecodeError == Raise("JSONDecodeError", "Expecting value: line 1 column 1 (char 0)")
ResponseJson(body) == IF body.t \in {"notjson", "nothing"} THEN JsonDecodeError ELSE Ret(body)

\* One line of a text/event-stream body: the line's text is head followed
\* by the JSON text of payload (nothing for NoPayload).
SseLine(head, payload) == [head |-> head, payload |-> payload]

\* The first character of a payload's text.
PayloadLead(v) ==
    CASE v.t = "dict" -> "{"
      [] v.t = "list" -> "["
      [] v.t = "str" -> "\""
      [] v.t = "nothing" -> ""
      [] OTHER -> "x"

\* Whether a line holds white space only.
IsBlank(line) == line.payload = NoPayload /\ LStrip(line.head) = ""

RECURSIVE DropLeadingBlank(_)
DropLeadingBlank(lines) ==
    IF Len(lines) > 0 /\ IsBlank(lines[1]) THEN DropLeadingBlank(Tail(lines)) ELSE lines

RECURSIVE DropTrailingBlank(_)
DropTrailingBlank(lines) ==
    IF Len(lines) > 0 /\ IsBlank(lines[Len(lines)])
    THEN DropTrailingBlank(SubSeq(lines, 1, Len(lines) - 1))
    ELSE lines

\* response_text.strip().split('\n'): the white space before the first and
\* after the last character of the text is gone ('' splits into ['']).
StripSplit(lines) ==
    LET l1 == DropTrailingBlank(DropLeadingBlank(lines))
    IN IF Len(l1) = 0 THEN << SseLine("", NoPayload) >>
       ELSE [i \in 1..Len(l1) |->
               IF i = 1 THEN SseLine(LStrip(l1[1].head), l1[1].payload) ELSE l1[i]]

\* line.startswith('data: ')
IsDataLine(line) == StartsWith(line.head \o PayloadLead(line.payload), "data: ")

\* json.loads(line[6:]) of a data line: the JSON text may follow white space.
LoadsData(line) ==
    IF LStrip(SubSeq(line.head, 7, Len(line.head))) = ""
    THEN ResponseJson(line.payload)
    ELSE JsonDecodeError

(***************************************************************************)
(* call_tool(): the decoding of the tools/call response.                   *)
(***************************************************************************)
\* Neither a return nor a raise: control falls through to the next statement.
Fall == [kind |-> "fall", val |-> JNull, exc |-> NoExc]

\* `text = content[0]['text']`, the len(text) of the log line and
\* `return text`, once `'text' in content[0]` held.
ReturnText(item) ==
    LET text == Subscript(item, "text")
    IN IF text.kind = "raise" THEN text
       ELSE IF LenRaises(text.val) THEN LenError(text.val)
       ELSE Ret(text.val)

\* The test `'text' in content[0]` on a non-empty list, and the return of
\* the text when it holds.
ContentText(content) ==
    LET item == First(content)
    IN IF InRaises(item) THEN InError(item)
       ELSE IF InHolds("text", item) THEN ReturnText(item)
       ELSE Fall

\* The body of one round of the loop over the data lines: what the payload
\* event_data yields.
SseEvent(event_data) ==
    IF IsDict(event_data) /\ HasKey(event_data, "result")
    THEN LET tool_result == Get(event_data, "result")
         IN IF IsDict(tool_result) /\ HasKey(tool_result, "content")
            THEN LET content == Get(tool_result, "content")
                 IN IF IsList(content) /\ ListLen(content) > 0
                    THEN ContentText(content)
                    ELSE Fall
            ELSE Fall
    ELSE Fall

SseParseFailure == "Error: Could not parse SSE stream response"

RECURSIVE SseScan(_, _)
\* The loop over lines, from line i on, and the return after it.
SseScan(lines, i) ==
    IF i > Len(lines) THEN Ret(JStr(SseParseFailure))
    ELSE IF ~IsDataLine(lines[i]) THEN SseScan(lines, i + 1)
    ELSE LET loaded == LoadsData(lines[i])
         IN IF loaded.kind = "raise"
            THEN \* except json.JSONDecodeError: continue
                 SseScan(lines, i + 1)
            ELSE LET r == SseEvent(loaded.val)
                 IN IF r.kind = "fall" THEN SseScan(lines, i + 1) ELSE r

\* The text/event-stream branch.
DecodeSse(response) == SseScan(StripSplit(response.lines), 1)

\* The branch `if 'error' in result`.
JsonError(result) ==
    LET error == Get(result, "error")
    IN IF ~IsDict(error)
       THEN Raise("AttributeError", "'" \o TypeName(error) \o "' object has no attribute 'get'")
       ELSE LET error_msg == IF HasKey(error, "message")
                             THEN Get(error, "message")
                             ELSE JStr(PyStr(error))
            IN Ret(JStr("Error from MCP server: " \o PyStr(error_msg)))

\* The branch `if 'result' in result`.
JsonResult(result) ==
    LET tool_result == Get(result, "result")
        text == IF IsDict(tool_result) /\ HasKey(tool_result, "content")
                THEN LET content == Get(tool_result, "content")
                     IN IF IsList(content) /\ ListLen(content) > 0
                        THEN ContentText(content)
                        ELSE Fall
                ELSE Fall
    IN IF text.kind # "fall" THEN text
       ELSE IF IsStr(tool_result) THEN Ret(tool_result)
       ELSE Ret(JStr(Dumps(tool_result)))


\* DecodeJson with the two tests swapped: the result key is looked at first.
DecodeJsonResultFirst(response) ==
    LET loaded == ResponseJson(response.body)
    IN IF loaded.kind = "raise" THEN loaded
       ELSE LET result == loaded.val
            IN IF IsDict(result) /\ HasKey(result, "result") THEN JsonResult(result)
               ELSE IF IsDict(result) /\ HasKey(result, "error") THEN JsonError(result)
               ELSE Ret(JStr(Dumps(result)))

\* The JSON branch.
DecodeJson(response) ==
    LET loaded == ResponseJson(response.body)
    IN IF loaded.kind = "raise" THEN loaded
       ELSE LET result == loaded.val
            IN IF IsDict(result) /\ HasKey(result, "error") THEN JsonError(result)
               ELSE IF IsDict(result) /\ HasKey(result, "result") THEN JsonResult(result)
               ELSE Ret(JStr(Dumps(result)))

\* Whether the response is decoded as an event stream.
IsEventStream(content_type) == Contains(content_type, "text/event-stream")

\* call_tool() from the return of self.client.post to the end of the try
\* block.
ToolResponseBody(response) ==
    IF response.exc # "" THEN Raise(response.exc, response.msg)
    ELSE IF ~IsSuccess(response.status) THEN StatusError(response.status)
    ELSE IF IsEventStream(response.ctype) THEN DecodeSse(response)
    ELSE DecodeJson(response)


\* CallToolExcept without its second clause, `except Exception`.
CallToolExceptHttpOnly(r) ==
    IF r.kind = "raise" /\ IsHTTPError(r.exc)
    THEN Ret(JStr("Error calling tool: " \o r.exc.msg))
    ELSE r

\* The except clauses of call_tool().
CallToolExcept(r) ==
    IF r.kind # "raise" THEN r
    ELSE IF IsHTTPError(r.exc) THEN Ret(JStr("Error calling tool: " \o r.exc.msg))
    ELSE IF IsException(r.exc) THEN Ret(JStr("Error: " \o r.exc.msg))
    ELSE r

(***************************************************************************)
(* initialize(): what the initialize response decides.                     *)
(***************************************************************************)
\* The JSON branch: init_success, or a return of False.
InitJson(response) ==
    LET loaded == ResponseJson(response.body)
    IN IF loaded.kind = "raise" THEN loaded
       ELSE LET result == loaded.val
            IN IF InRaises(result) THEN InError(result)
               ELSE IF InHolds("result", result) THEN Fall
               ELSE IF InHolds("error", result)
               THEN LET error == Subscript(result, "error")
                    IN IF error.kind = "raise" THEN error
                       ELSE IF ~IsDict(error.val)
                       THEN Raise("AttributeError",
                                  "'" \o TypeName(error.val) \o "' object has no attribute 'get'")
                       ELSE Ret(JBool(FALSE))
               ELSE Ret(JBool(FALSE))

\* initialize() from the return of the first self.client.post to the second
\* one: Fall when the handshake goes on to the notification (init_success).
InitResponseBody(response) ==
    IF response.exc # "" THEN Raise(response.exc, response.msg)
    ELSE IF ~IsSuccess(response.status) THEN StatusError(response.status)
    ELSE IF IsEventStream(response.ctype) THEN Fall
    ELSE InitJson(response)

\* SessionIdAfter without the test `if session_id`.
SessionIdAssigned(old, response) ==
    IF response.exc = "" /\ IsSuccess(response.status) THEN response.sid ELSE old

\* The session id after the initialize response: the header is read once
\* raise_for_status() has passed, and kept when it is a non-empty string.
SessionIdAfter(old, response) ==
    IF response.exc = "" /\ IsSuccess(response.status)
       /\ response.sid # NoHeader /\ response.sid # ""
    THEN response.sid
    ELSE old

\* NotifResponseBody with a status other than 202 raising, as
\* raise_for_status() does for an error status.
NotifResponseBodyChecked(response) ==
    IF response.exc # "" THEN Raise(response.exc, response.msg)
    ELSE IF response.status # 202 THEN StatusError(response.status)
    ELSE Ret(JBool(TRUE))

\* initialize() from the return of the second self.client.post on: the
\* status is logged, never checked.
NotifResponseBody(response) ==
    IF response.exc # "" THEN Raise(response.exc, response.msg)
    ELSE Ret(JBool(TRUE))


\* InitializeExcept catching httpx.HTTPError only.
InitializeExceptHttpOnly(r) ==
    IF r.kind = "raise" /\ IsHTTPError(r.exc) THEN Ret(JBool(FALSE)) ELSE r

\* The except clause of initialize().
InitializeExcept(r) ==
    IF r.kind = "raise" /\ IsException(r.exc) THEN Ret(JBool(FALSE)) ELSE r

(***************************************************************************)
(* The server's answers the model draws from.                              *)
(***************************************************************************)
\* {"result": {"content": [{"text": text}]}}
TextEnvelope(text) ==
    JDict(<< <<"result", JDict(<< <<"content", JList(<< JDict(<< <<"text", text>> >>) >>)>> >>)>> >>)
\* {"result": {"content": content}}
ContentEnvelope(content) ==
    JDict(<< <<"result", JDict(<< <<"content", content>> >>)>> >>)
\* {"error": {"message": "boom"}}
ErrorEnvelope == JDict(<< <<"error", JDict(<< <<"message", JStr("boom")>> >>)>> >>)
\* {"result": {"protocolVersion": "2025-03-26"}}
InitResult == JDict(<< <<"result", JDict(<< <<"protocolVersion", JStr("2025-03-26")>> >>)>> >>)

\* Bodies of a JSON answer to initialize.
InitBodies ==
    { InitResult, ErrorEnvelope, JDict(<<>>), NotJson, JInt(5), JStr("result"),
      JDict(<< <<"error", JStr("boom")>> >>), JList(<< JStr("error") >>) }

\* Answers to the initialize request.
InitResponses ==
    { TransportError("All connection attempts failed"),
      HttpResponse(500, "s1", "application/json", InitResult, <<>>) }
    \cup { HttpResponse(200, sid, "application/json", InitResult, <<>>) :
             sid \in {NoHeader, "", "s1", "s2"} }
    \cup { HttpResponse(200, sid, "text/event-stream", NotJson, <<>>) :
             sid \in {NoHeader, "s1"} }
    \cup { HttpResponse(200, NoHeader, "application/json", body, <<>>) : body \in InitBodies }
    \cup { HttpResponse(200, "s1", "application/json", ErrorEnvelope, <<>>) }

\* Answers to the notifications/initialized request.
NotifResponses ==
    { TransportError("All connection attempts failed") }
    \cup { HttpResponse(status, NoHeader, "", NoPayload, <<>>) : status \in {202, 200, 500} }

\* Bodies of a JSON answer to tools/call.
ToolBodies ==
    { TextEnvelope(JStr("X")),
      TextEnvelope(JInt(5)),
      TextEnvelope(JList(<< JStr("a") >>)),
      ContentEnvelope(JList(<< JDict(<< <<"text", JStr("X")>> >>), JDict(<< <<"text", JStr("Z")>> >>) >>)),
      ContentEnvelope(JList(<<>>)),
      ContentEnvelope(JList(<< JDict(<< <<"type", JStr("image")>> >>) >>)),
      ContentEnvelope(JList(<< JInt(5) >>)),
      ContentEnvelope(JList(<< JStr("context") >>)),
      ContentEnvelope(JStr("str")),
      JDict(<< <<"result", JStr("plain")>> >>),
      JDict(<< <<"result", JDict(<< <<"a", JInt(1)>> >>)>> >>),
      JDict(<< <<"result", JNull>> >>),
      JDict(<<>>),
      JDict(<< <<"jsonrpc", JStr("2.0")>>, <<"id", JInt(1)>> >>),
      JList(<< JInt(1) >>),
      JStr("s"),
      NotJson,
      ErrorEnvelope,
      JDict(<< <<"error", JDict(<< <<"message", JStr("boom")>> >>)>>,
               <<"result", JDict(<< <<"content", JList(<< JDict(<< <<"text", JStr("X")>> >>) >>)>> >>)>> >>),
      JDict(<< <<"error", JDict(<< <<"code", JInt(1)>> >>)>> >>),
      JDict(<< <<"error", JStr("boom")>> >>),
      JDict(<< <<"jsonrpc", JStr("2.0")>>, <<"id", JInt(99)>>,
               <<"result", JDict(<< <<"content", JList(<< JDict(<< <<"text", JStr("W")>> >>) >>)>> >>)>> >>) }

\* Payloads of a line of an event stream.
LinePayloads ==
    { TextEnvelope(JStr("Y")), TextEnvelope(JStr("Z")), TextEnvelope(JInt(5)),
      ContentEnvelope(JList(<< JInt(5) >>)), ContentEnvelope(JList(<<>>)),
      ErrorEnvelope, NotJson }

\* Bodies of a text/event-stream answer to tools/call, as lines.
SseBodies ==
    { <<>>,
      << SseLine("event: message", NoPayload), SseLine("data: ", TextEnvelope(JStr("Y"))),
         SseLine("", NoPayload) >>,
      << SseLine(" data: ", TextEnvelope(JStr("Y"))) >>,
      << SseLine("data:", TextEnvelope(JStr("Y"))) >> }
    \cup { << SseLine("data: ", p) >> : p \in LinePayloads }
    \cup { << SseLine("data: ", p), SseLine("data: ", q) >> :
             p \in LinePayloads, q \in {TextEnvelope(JStr("Y")), TextEnvelope(JStr("Z"))} }

\* Answers to a tools/call request.
ToolResponses ==
    { TransportError("All connection attempts failed"), TransportError(""),
      HttpResponse(500, NoHeader, "application/json", ErrorEnvelope, <<>>),
      HttpResponse(404, NoHeader, "text/event-stream", NotJson,
                   << SseLine("data: ", TextEnvelope(JStr("Y"))) >>),
      HttpResponse(202, NoHeader, "", NoPayload, <<>>) }
    \cup { HttpResponse(200, NoHeader, "application/json", body, <<>>) : body \in ToolBodies }
    \cup { HttpResponse(200, NoHeader, "text/event-stream; charset=utf-8", NotJson, lines) :
             lines \in SseBodies }

\* The tools a caller asks for.
ToolNames == {"get_aws_news"}

(***************************************************************************)
(* The Lambda responder                                                    *)
(* (src/slack-bot-for-aws-news/aws-news-mcp-in-lambda/mcp_lambda.py, class *)
(* McpLambdaServer) and the tool main.py registers on it.                  *)
(***************************************************************************)
RECURSIVE JsonEscape(_)
\* The characters of a str as json.dumps writes them between the quotes.
JsonEscape(s) ==
    IF Len(s) > 1
    THEN JsonEscape(SubSeq(s, 1, Len(s) \div 2))
         \o JsonEscape(SubSeq(s, Len(s) \div 2 + 1, Len(s)))
    ELSE CASE s = "\"" -> "\\\""
           [] s = "\\" -> "\\\\"
           [] s = "\n" -> "\\n"
           [] s = "\r" -> "\\r"
           [] s = "\t" -> "\\t"
           [] OTHER -> s

RECURSIVE DumpsFlat(_)
RECURSIVE FlatKids(_, _, _)
FlatKids(kids, i, isDict) ==
    IF i > Len(kids) THEN ""
    ELSE (IF isDict THEN "\"" \o JsonEscape(kids[i].k) \o "\": " ELSE "")
         \o DumpsFlat(kids[i].v)
         \o (IF i < Len(kids) THEN ", " ELSE "")
         \o FlatKids(kids, i + 1, isDict)

\* json.dumps(v), on ASCII strings
DumpsFlat(v) ==
    CASE v.t = "null" -> "null"
      [] v.t = "bool" -> (IF v.n = 1 THEN "true" ELSE "false")
      [] v.t = "int" -> IntToStr(v.n)
      [] v.t = "str" -> "\"" \o JsonEscape(v.s) \o "\""
      [] v.t = "list" -> "[" \o FlatKids(v.kids, 1, FALSE) \o "]"
      [] v.t = "dict" -> "{" \o FlatKids(v.kids, 1, TRUE) \o "}"

\* bool(v): what `if v` and `v or w` test
Truthy(v) ==
    CASE v.t = "null" -> FALSE
      [] v.t \in {"bool", "int"} -> v.n # 0
      [] v.t = "str" -> v.s # ""
      [] OTHER -> Len(v.kids) > 0

\* request.get(key) and params.get(key): None when the key is absent.
GetOrNone(d, key) == IF HasKey(d, key) THEN Get(d, key) ELSE JNull

\* x.get(...) on a value that is no dict
NoGet(v) == Raise("AttributeError", "'" \o TypeName(v) \o "' object has no attribute 'get'")

RECURSIVE Lower(_)
\* str.lower(), on ASCII text
Lower(s) ==
    IF Len(s) > 1
    THEN Lower(SubSeq(s, 1, Len(s) \div 2)) \o Lower(SubSeq(s, Len(s) \div 2 + 1, Len(s)))
    ELSE LET upper == "ABCDEFGHIJKLMNOPQRSTUVWXYZ"
             lower == "abcdefghijklmnopqrstuvwxyz"
             at == {i \in 1..Len(upper) : SubSeq(upper, i, i) = s}
         IN IF at = {} THEN s ELSE LET i == CHOOSE i \in at : TRUE IN SubSeq(lower, i, i)

(***************************************************************************)
(* self.tools: a dict in insertion order, as a sequence of entries (key k, *)
(* value v). The callables are named by their __name__.                    *)
(***************************************************************************)
\* k in d and d[k]
DictHas(d, key) == \E i \in 1..Len(d) : d[i].k = key
DictGet(d, key) == d[CHOOSE i \in 1..Len(d) : d[i].k = key].v

\* DictSet that adds an entry whether or not the key is there.
DictAppend(d, key, value) == Append(d, [k |-> key, v |-> value])

\* d[key] = value: an entry that is there keeps its place and gets the value.
DictSet(d, key, value) ==
    IF DictHas(d, key)
    THEN [i \in 1..Len(d) |-> IF d[i].k = key THEN [k |-> key, v |-> value] ELSE d[i]]
    ELSE Append(d, [k |-> key, v |-> value])

\* tool_name = name or fn.__name__ (name None, "" or a name)
ToolName(name, fn) == IF name # None /\ name # "" THEN name ELSE fn

(***************************************************************************)
(* The call of self.tools[name] with the keyword arguments **args.         *)
(***************************************************************************)
\* The keyword parameters of the callables, and those without a default.
Signature(fn) ==
    CASE fn = "echo" -> [parameters |-> {"x"}, required |-> <<"x">>]
      [] fn = "get_aws_feed_news" ->
           [parameters |-> {"max_articles", "search_keywords"}, required |-> <<>>]

\* The binding of the arguments to the parameters of fn: the TypeError it raises,
\* or Fall when the body runs.
Bind(fn, args) ==
    IF ~IsDict(args)
    THEN Raise("TypeError", "main." \o fn \o "() argument after ** must be a mapping, not "
                            \o TypeName(args))
    ELSE LET unexpected == {i \in 1..Len(args.kids) : args.kids[i].k \notin Signature(fn).parameters}
             missing == SelectSeq(Signature(fn).required, LAMBDA p : ~HasKey(args, p))
         IN IF unexpected # {}
            THEN Raise("TypeError",
                       fn \o "() got an unexpected keyword argument '"
                       \o args.kids[CHOOSE i \in unexpected : \A j \in unexpected : i <= j].k
                       \o "'")
            ELSE IF Len(missing) > 0
            THEN Raise("TypeError",
                       fn \o "() missing 1 required positional argument: '" \o missing[1] \o "'")
            ELSE Fall

\* def echo(x): return x
echo(args) == Ret(Get(args, "x"))

\* feed.entries[:max_articles]
SliceTo(entries, max_articles) ==
    IF max_articles.t = "null" THEN Ret(entries)
    ELSE IF max_articles.t \in {"int", "bool"}
    THEN LET n == max_articles.n
             last == IF n >= 0 THEN (IF n < Len(entries) THEN n ELSE Len(entries))
                     ELSE (IF Len(entries) + n > 0 THEN Len(entries) + n ELSE 0)
         IN Ret(SubSeq(entries, 1, last))
    ELSE Raise("TypeError",
               "slice indices must be integers or None or have an __index__ method")

RECURSIVE JoinResults(_)
\* "\n\n".join(results), results the f-strings of the entries kept
JoinResults(entries) ==
    IF Len(entries) = 0 THEN ""
    ELSE "- " \o entries[1].title \o "\n  " \o entries[1].link
         \o (IF Len(entries) > 1 THEN "\n\n" ELSE "")
         \o JoinResults(Tail(entries))

\* The body of get_aws_feed_news, on the feed the parse returned.
get_aws_feed_news(args, feed) ==
    LET max_articles == IF HasKey(args, "max_articles") THEN Get(args, "max_articles")
                        ELSE JInt(10)
        search_keywords == GetOrNone(args, "search_keywords")
        sliced == SliceTo(feed, max_articles)
    IN IF sliced.kind = "raise" THEN sliced
       ELSE IF Len(sliced.val) > 0 /\ Truthy(search_keywords) /\ ~IsStr(search_keywords)
       THEN Raise("AttributeError",
                  "'" \o TypeName(search_keywords) \o "' object has no attribute 'lower'")
       ELSE LET results ==
                    SelectSeq(sliced.val,
                              LAMBDA entry :
                                  \/ ~Truthy(search_keywords)
                                  \/ Contains(Lower(entry.title), Lower(search_keywords.s)))
            IN Ret(JStr(IF Len(results) > 0 THEN JoinResults(results) ELSE "No results"))

\* The call of self.tools[name] with **args, fn the callable registered
\* under the name.
CallFn(fn, args, feed) ==
    LET bound == Bind(fn, args)
    IN IF bound.kind = "raise" THEN bound
       ELSE IF fn = "echo" THEN echo(args)
       ELSE get_aws_feed_news(args, feed)

(***************************************************************************)
(* handle(event, context).                                                 *)
(***************************************************************************)
\* event["body"] is None.
NoneBody == [t |-> "none", s |-> "", n |-> 0, kids |-> <<>>]

\* An inbound event. body is what the body text spells: a JSON value,
\* NotJson for a text that is no JSON, NoPayload for the empty text (also an
\* event without a body) and NoneBody for None; enc is "base64" when the
\* body is the base64 encoding of that text and "text" when it is the text;
\* isBase64Encoded is the event's flag (absent is False).
LambdaEvent(body, enc, flag) == [body |-> body, enc |-> enc, isBase64Encoded |-> flag]

\* body = event.get("body", ""), base64-decoded when the event is flagged.
\* b64decode().decode() of a text that is no base64 raises binascii.Error
\* or UnicodeDecodeError, both a ValueError, with a message that depends on
\* the text; a base64 text is no JSON text.
EventBody(event) ==
    IF event.isBase64Encoded
    THEN IF event.body = NoneBody
         THEN Raise("TypeError",
                    "argument should be a bytes-like object or ASCII string, not 'NoneType'")
         ELSE IF event.enc = "base64" \/ event.body = NoPayload THEN Ret(event.body)
         ELSE Raise("ValueError", "Incorrect padding")
    ELSE IF event.enc = "base64" /\ event.body \notin {NoneBody, NoPayload} THEN Ret(NotJson)
    ELSE Ret(event.body)

\* request = json.loads(body)
LoadsBody(body) ==
    IF body = NoneBody
    THEN Raise("TypeError", "the JSON object must be str, bytes or bytearray, not NoneType")
    ELSE ResponseJson(body)

\* _response(req_id, result) and _error(req_id, message): the dict
\* returned, body the text json.dumps writes and envelope the value it
\* spells.
LambdaEnvelope(envelope) ==
    [statusCode |-> 200, headers |-> [ContentType |-> "application/json"],
     body |-> DumpsFlat(envelope), envelope |-> envelope]
LambdaResponse(req_id, result) ==
    LambdaEnvelope(JDict(<< <<"jsonrpc", JStr("2.0")>>, <<"result", result>>, <<"id", req_id>> >>))
LambdaError(req_id, message) ==
    LambdaEnvelope(JDict(<< <<"jsonrpc", JStr("2.0")>>,
                            <<"error", JDict(<< <<"message", JStr(message)>> >>)>>,
                            <<"id", req_id>> >>))

\* f"Unknown tool: {name}" with the repr of the name.
UnknownToolRepr(name) == "Unknown tool: " \o PyRepr(name)

\* f"Unknown tool: {name}"
UnknownTool(name) == "Unknown tool: " \o PyStr(name)

\* The last return of handle() without the method.
UnknownMethodBare(method) == "Unknown method"

\* f"Unknown method: {method}"
UnknownMethod(method) == "Unknown method: " \o PyStr(method)

\* What handle() yields and the calls of registered tools it made.
Handled(out, invoked) == [out |-> out, invoked |-> invoked]

\* The branch `if method == "tools/list"`.
ToolsList(registry, req_id) ==
    LambdaResponse(req_id,
        JDict(<< <<"tools",
                   JList([i \in 1..Len(registry) |->
                            JDict(<< <<"name", JStr(registry[i].k)>> >>)])>> >>))

\* HandleExcept without the except clause: the exception leaves handle().
HandleNoExcept(req_id, r) ==
    IF r.kind = "return" THEN Ret(LambdaResponse(req_id, r.val)) ELSE r

\* The try block around the call of the tool: `except Exception as e`.
HandleExcept(req_id, r) ==
    IF r.kind = "return" THEN Ret(LambdaResponse(req_id, r.val))
    ELSE IF IsException(r.exc) THEN Ret(LambdaError(req_id, r.exc.msg))
    ELSE r

\* The branch `if method == "tools/call"`.
ToolsCall(registry, request, req_id, feed) ==
    LET params == IF HasKey(request, "params") THEN Get(request, "params") ELSE JDict(<<>>)
    IN IF ~IsDict(params) THEN Handled(NoGet(params), <<>>)
       ELSE LET name == GetOrNone(params, "name")
                args == IF HasKey(params, "arguments") THEN Get(params, "arguments")
                        ELSE JDict(<<>>)
            IN IF name.t \in {"list", "dict"}
               THEN Handled(Raise("TypeError", "unhashable type: '" \o TypeName(name) \o "'"),
                            <<>>)
               ELSE IF ~(IsStr(name) /\ DictHas(registry, name.s))
               THEN Handled(Ret(LambdaError(req_id, UnknownTool(name))), <<>>)
               ELSE Handled(HandleExcept(req_id, CallFn(DictGet(registry, name.s), args, feed)),
                            << [name |-> name.s, fn |-> DictGet(registry, name.s),
                                arguments |-> args] >>)

\* handle(event, context) on the registry self.tools; feed is what the
\* feed's server answers a tool that asks.
Handle(registry, event, feed) ==
    LET body == EventBody(event)
        loaded == IF body.kind = "raise" THEN body ELSE LoadsBody(body.val)
    IN IF loaded.kind = "raise" THEN Handled(loaded, <<>>)
       ELSE IF ~IsDict(loaded.val) THEN Handled(NoGet(loaded.val), <<>>)
       ELSE LET request == loaded.val
                method == GetOrNone(request, "method")
                req_id == GetOrNone(request, "id")
            IN IF method = JStr("tools/list")
               THEN Handled(Ret(ToolsList(registry, req_id)), <<>>)
               ELSE IF method = JStr("tools/call")
               THEN ToolsCall(registry, request, req_id, feed)
               ELSE Handled(Ret(LambdaError(req_id, UnknownMethod(method))), <<>>)

(***************************************************************************)
(* The registrations, events and feeds the model draws from.               *)
(***************************************************************************)
\* The callables, and the names given to tool().
Fns == {"echo", "get_aws_feed_news"}
RegisteredAs == {None, "", "echo"}

\* What the feed's server answers: feed.entries, each with title and link.
Feeds ==
    { <<>>,
      << [title |-> "Amazon S3 Update", link |-> "https://aws.amazon.com/s3"],
         [title |-> "AWS Lambda News", link |-> "https://aws.amazon.com/lambda"] >> }

\* A JSON-RPC request with the members given.
RpcRequest(members) == JDict(<< <<"jsonrpc", JStr("2.0")>> >> \o members)

\* The request objects.
RpcRequests ==
    LET CallArguments ==
            { JDict(<< <<"x", JStr("hi")>> >>),
              JDict(<< <<"y", JStr("hi")>> >>),
              JDict(<<>>),
              JList(<< JInt(1) >>),
              JDict(<< <<"max_articles", JInt(1)>>, <<"search_keywords", JStr("S3")>> >>),
              JDict(<< <<"max_articles", JStr("x")>> >>),
              JDict(<< <<"search_keywords", JInt(5)>> >>) }
    IN
    { RpcRequest(<< <<"method", JStr("tools/call")>>,
                    <<"params", JDict(<< <<"name", name>>, <<"arguments", arguments>> >>)>>,
                    <<"id", JInt(1)>> >>) :
        name \in {JStr("echo"), JStr("get_aws_feed_news"), JStr("nope")},
        arguments \in CallArguments }
    \cup { RpcRequest(<< <<"method", JStr("tools/call")>>, <<"params", params>>,
                         <<"id", JStr("a")>> >>) :
             params \in { JDict(<< <<"name", JStr("echo")>> >>),
                          JDict(<< <<"name", JNull>> >>),
                          JDict(<< <<"name", JInt(5)>> >>),
                          JDict(<< <<"name", JList(<< JStr("echo") >>)>> >>),
                          JDict(<<>>), JNull, JStr("echo") } }
    \cup { RpcRequest(<< <<"method", method>>, <<"id", JInt(2)>> >>) :
             method \in { JStr("tools/list"), JStr("tools/call"), JStr("initialize"),
                          JStr("notifications/initialized"), JStr("TOOLS/LIST"), JNull,
                          JInt(5), JList(<< JStr("tools/list") >>) } }
    \cup { RpcRequest(<< <<"method", JStr("tools/list")>> >>),
           RpcRequest(<< <<"method", JStr("notifications/initialized")>> >>),
           RpcRequest(<< <<"id", JInt(3)>> >>),
           JDict(<<>>) }

\* The inbound events.
Events ==
    { LambdaEvent(request, "text", FALSE) : request \in RpcRequests }
    \cup { LambdaEvent(body, "text", FALSE) :
             body \in {NotJson, NoPayload, NoneBody, JList(<< JInt(1) >>), JInt(5), JNull,
                       JStr("tools/list")} }
    \cup { LambdaEvent(RpcRequest(<< <<"method", JStr("tools/list")>>, <<"id", JInt(2)>> >>),
                       enc, flag) :
             enc \in {"text", "base64"}, flag \in BOOLEAN }
    \cup { LambdaEvent(NotJson, "base64", TRUE), LambdaEvent(NotJson, "text", TRUE),
           LambdaEvent(NoPayload, "text", TRUE), LambdaEvent(NoneBody, "text", TRUE) }

(***************************************************************************)
(* The session: the fields of the one MCPClient, the requests it has sent, *)
(* and the coroutines that call it.                                        *)
(***************************************************************************)
\* The coroutines that can hold a call of the client; Spec runs the first.
Callers == {1, 2}
MainCaller == 1

VARIABLES
    session_id,     \* self.session_id: None, or the id the server issued
    request_id,     \* self.request_id
    initialized,    \* self.initialized
    sent,           \* the requests posted so far, oldest first
    pc,             \* per caller: "idle", or the await its invocation is at
    frame,          \* per caller: its invocation, running or last completed
    calls,          \* invocations started
    everInitTrue    \* whether some initialize() has returned True

\* The responder: the one McpLambdaServer of main.py.
VARIABLES
    tools,          \* self.tools
    served,         \* the handle() invoked last: its event and what it yielded
    tool_raised,    \* whether a registered tool has raised in some handle()
    registered      \* the registrations so far: per name the callable of the last
                    \* one (None: none), and whether one replaced another callable

\* One invocation of chat_with_llm(), the tool-dispatch loop.
VARIABLES
    loop_pc,                \* "idle" before the call, "model" at the call of the
                            \* model, "tool" at `await mcp_client.call_tool`, "done"
    conversation_history,   \* the caller's list, or that none is given
    messages,               \* messages
    iteration,              \* iteration
    tool_calls,             \* assistant_message.tool_calls of the reply at hand
    tool_index,             \* the place of tool_call in it
    answer,                 \* what the invocation yielded
    replies,                \* the answers of the model so far, oldest first
    submitted               \* the message sequences given to the model so far

\* The program of bot.py: the module is loaded, which constructs mcp_client,
\* and asyncio.run(main()) runs.
VARIABLES
    main_pc,        \* "start" before main() runs, "init" and "tool" at the awaits
                    \* of validate_mcp_server(), "serving" at `await
                    \* handler.start_async()`, "exited" once main() has ended
    exit_path,      \* how main() ended: None while it has not
    closed          \* whether mcp_client.close() has been executed

clientVars == <<session_id, request_id, initialized, sent, pc, frame, calls, everInitTrue>>
responderVars == <<tools, served, tool_raised, registered>>
loopVars ==
    <<loop_pc, conversation_history, messages, iteration, tool_calls, tool_index, answer,
      replies, submitted>>
mainVars == <<main_pc, exit_path, closed>>
vars == <<clientVars, responderVars, loopVars, mainVars>>

\* Not run, not answered, not returned yet.
NotYet == [kind |-> "none", val |-> JNull, exc |-> NoExc]
NoResponse ==
    [exc |-> "none", msg |-> "", status |-> 0, sid |-> NoHeader, ctype |-> "",
     body |-> NoPayload, lines |-> <<>>]

\* An invocation: op the method called, name the tool, prior whether an
\* initialize() had returned True before it started, nsent the requests it
\* has posted, init what its initialize() yielded, at and resp the request
\* answered last and the answer, raw what the try block of call_tool
\* yielded and out what the invocation yielded to its caller.
NewFrame(op, name) ==
    [op |-> op, name |-> name, prior |-> everInitTrue, nsent |-> 0, init |-> NotYet,
     at |-> "", resp |-> NoResponse, raw |-> NotYet, out |-> NotYet]

\* A posted request: the JSON-RPC method and id, the tool named in params,
\* the Mcp-Session-Id request header, and the client's session_id and
\* initialized at the time of the post.
Request(method, id, name, header, sid, ini) ==
    [method |-> method, id |-> id, name |-> name, header |-> header,
     session_id |-> sid, initialized |-> ini]

\* init_request and its post: id 0, and no headers argument.
InitializeRequest(sid, ini) == Request("initialize", 0, "", NoHeader, sid, ini)

\* headers["Mcp-Session-Id"] = self.session_id, `if self.session_id`
SessionHeader(sid) == IF sid # None /\ sid # "" THEN sid ELSE NoHeader

\* initialized_notification and its post: no id.
InitializedNotification(sid, ini) ==
    Request("notifications/initialized", NoId, "", SessionHeader(sid), sid, ini)

\* json_rpc_request and its post.
ToolsCallRequest(id, name, sid, ini) ==
    Request("tools/call", id, name, SessionHeader(sid), sid, ini)


\* InitializedAfter without the assignment `self.initialized = True`.
InitializedNeverSet(ini, notified) == ini

\* self.initialized after the notification step: True once the post returned.
InitializedAfter(ini, notified) == IF notified.kind = "return" THEN TRUE ELSE ini

\* The argument conversation_history: None, or a list of messages.
NoHistory == [given |-> FALSE, items |-> <<>>]
History(items) == [given |-> TRUE, items |-> items]

\* No handle() yet.
NoEvent == LambdaEvent(NoPayload, "none", FALSE)

\* The record of one handle(): the event and the feed it ran on, whether a
\* tool had raised before, what it yielded and the tools it called.
Served(event, feed, h) ==
    [event |-> event, feed |-> feed, prior_raise |-> tool_raised,
     out |-> h.out, invoked |-> h.invoked]

Init ==
    /\ everInitTrue = FALSE
    /\ session_id = None
    /\ request_id = 0
    /\ initialized = FALSE
    /\ sent = <<>>
    /\ pc = [c \in Callers |-> "idle"]
    /\ frame = [c \in Callers |-> NewFrame("", "") ]
    /\ calls = 0
    /\ tools = <<>>
    /\ tool_raised = FALSE
    /\ served = Served(NoEvent, <<>>, Handled(NotYet, <<>>))
    /\ registered =
         [last |-> [n \in {ToolName(name, fn) : name \in RegisteredAs, fn \in Fns} |-> None],
          replaced |-> FALSE]
    /\ loop_pc = "idle"
    /\ conversation_history = NoHistory
    /\ messages = <<>>
    /\ iteration = 0
    /\ tool_calls = <<>>
    /\ tool_index = 0
    /\ answer = NotYet
    /\ replies = <<>>
    /\ submitted = <<>>
    /\ main_pc = "start"
    /\ exit_path = None
    /\ closed = FALSE

(***************************************************************************)
(* The coroutines. Each action is the code from one await (or from the     *)
(* call) to the next await (or to the return).                             *)
(***************************************************************************)
\* The invocation of caller c yields out: c is idle again.
Return(c, fr, out, sid, ini, log, ever) ==
    /\ session_id' = sid
    /\ initialized' = ini
    /\ sent' = log
    /\ everInitTrue' = ever
    /\ pc' = [pc EXCEPT ![c] = "idle"]
    /\ frame' = [frame EXCEPT ![c] = [fr EXCEPT !.out = out]]
    /\ UNCHANGED request_id

\* PostToolsCall that builds the request with the next id and leaves
\* self.request_id as it was.
PostToolsCallNoWrite(c, fr, sid, ini, log, ever) ==
    /\ request_id' = request_id
    /\ sent' = Append(log, ToolsCallRequest(request_id + 1, fr.name, sid, ini))
    /\ session_id' = sid
    /\ initialized' = ini
    /\ everInitTrue' = ever
    /\ pc' = [pc EXCEPT ![c] = "tool_wait"]
    /\ frame' = [frame EXCEPT ![c] = [fr EXCEPT !.nsent = @ + 1]]

\* call_tool() after `await self.initialize()`: the id is incremented, the
\* request built and posted.
PostToolsCall(c, fr, sid, ini, log, ever) ==
    /\ request_id' = request_id + 1
    /\ sent' = Append(log, ToolsCallRequest(request_id + 1, fr.name, sid, ini))
    /\ session_id' = sid
    /\ initialized' = ini
    /\ everInitTrue' = ever
    /\ pc' = [pc EXCEPT ![c] = "tool_wait"]
    /\ frame' = [frame EXCEPT ![c] = [fr EXCEPT !.nsent = @ + 1]]

\* initialize() yields res to the code that called it: to the caller of an
\* initialize() invocation, or to call_tool(), which drops a returned value
\* and whose try block a raised exception leaves.
InitializeYields(c, fr, res, sid, ini, log) ==
    LET ever == everInitTrue \/ res = Ret(JBool(TRUE))
        fr1 == [fr EXCEPT !.init = res]
    IN IF fr.op = "initialize" THEN Return(c, fr1, res, sid, ini, log, ever)
       ELSE IF res.kind = "raise"
       THEN Return(c, [fr1 EXCEPT !.raw = res], CallToolExcept(res), sid, ini, log, ever)
       ELSE PostToolsCall(c, fr1, sid, ini, log, ever)

\* initialize() up to its first await: the cached answer, or the post of
\* the initialize request.
InitializeEnter(c, fr) ==
    IF initialized
    THEN InitializeYields(c, fr, InitializeExcept(Ret(JBool(TRUE))), session_id, initialized, sent)
    ELSE /\ sent' = Append(sent, InitializeRequest(session_id, initialized))
         /\ pc' = [pc EXCEPT ![c] = "init_wait"]
         /\ frame' = [frame EXCEPT ![c] = [fr EXCEPT !.nsent = @ + 1]]
         /\ UNCHANGED <<session_id, request_id, initialized, everInitTrue>>

\* A caller invokes initialize().
initialize(c) ==
    /\ pc[c] = "idle"
    /\ calls < MaxCalls
    /\ calls' = calls + 1
    /\ InitializeEnter(c, NewFrame("initialize", ""))
    /\ UNCHANGED <<responderVars, loopVars, mainVars>>

\* call_tool(name, arguments) up to its first await.
CallToolEnter(c, name) ==
    IF ~initialized
    THEN InitializeEnter(c, NewFrame("call_tool", name))
    ELSE PostToolsCall(c, NewFrame("call_tool", name), session_id, initialized, sent,
                       everInitTrue)

\* A caller invokes call_tool(name, arguments).
call_tool(c, name) ==
    /\ pc[c] = "idle"
    /\ calls < MaxCalls
    /\ calls' = calls + 1
    /\ CallToolEnter(c, name)
    /\ UNCHANGED <<responderVars, loopVars, mainVars>>

\* The answer to the initialize request arrives: initialize() from there to
\* the post of the notification, or to its return.
InitializeResponse(c, response) ==
    /\ pc[c] = "init_wait"
    /\ LET sid == SessionIdAfter(session_id, response)
           body == InitResponseBody(response)
           fr == [frame[c] EXCEPT !.at = "initialize", !.resp = response]
       IN IF body.kind = "fall"
          THEN /\ session_id' = sid
               /\ sent' = Append(sent, InitializedNotification(sid, initialized))
               /\ pc' = [pc EXCEPT ![c] = "notif_wait"]
               /\ frame' = [frame EXCEPT ![c] = [fr EXCEPT !.nsent = @ + 1]]
               /\ UNCHANGED <<request_id, initialized, everInitTrue>>
          ELSE InitializeYields(c, fr, InitializeExcept(body), sid, initialized, sent)
    /\ UNCHANGED calls
    /\ UNCHANGED <<responderVars, loopVars, mainVars>>

\* The answer to the notification arrives: initialize() from there to its
\* return.
NotificationResponse(c, response) ==
    /\ pc[c] = "notif_wait"
    /\ LET body == NotifResponseBody(response)
           fr == [frame[c] EXCEPT !.at = "notifications/initialized", !.resp = response]
       IN InitializeYields(c, fr, InitializeExcept(body), session_id,
                           InitializedAfter(initialized, body), sent)
    /\ UNCHANGED calls
    /\ UNCHANGED <<responderVars, loopVars, mainVars>>

\* ToolsCallResponse with one retry: after a failure in transport the
\* request is posted again.
ToolsCallResponseRetry(c, response) ==
    /\ pc[c] = "tool_wait"
    /\ IF (response.exc # "" \/ ~IsSuccess(response.status)) /\ frame[c].nsent < 4
       THEN /\ sent' = Append(sent, sent[Len(sent)])
            /\ frame' = [frame EXCEPT ![c].nsent = @ + 1]
            /\ UNCHANGED <<session_id, request_id, initialized, pc, everInitTrue>>
       ELSE LET raw == ToolResponseBody(response)
                fr == [frame[c] EXCEPT !.at = "tools/call", !.resp = response, !.raw = raw]
            IN Return(c, fr, CallToolExcept(raw), session_id, initialized, sent, everInitTrue)
    /\ UNCHANGED calls
    /\ UNCHANGED <<responderVars, loopVars, mainVars>>

\* The answer to the tools/call request arrives: call_tool() from there to
\* its return.
ToolsCallResponse(c, response) ==
    /\ pc[c] = "tool_wait"
    /\ LET raw == ToolResponseBody(response)
           fr == [frame[c] EXCEPT !.at = "tools/call", !.resp = response, !.raw = raw]
       IN Return(c, fr, CallToolExcept(raw), session_id, initialized, sent, everInitTrue)
    /\ UNCHANGED calls
    /\ UNCHANGED <<responderVars, loopVars, mainVars>>

\* One coroutine at a time uses the client.
Next ==
    \/ initialize(MainCaller)
    \/ \E name \in ToolNames : call_tool(MainCaller, name)
    \/ \E response \in InitResponses : InitializeResponse(MainCaller, response)
    \/ \E response \in NotifResponses : NotificationResponse(MainCaller, response)
    \/ \E response \in ToolResponses : ToolsCallResponse(MainCaller, response)

Spec == Init /\ [][Next]_vars

(***************************************************************************)
(* The responder's operations: a registration, and one invocation of       *)
(* handle() by the Lambda runtime.                                         *)
(***************************************************************************)
\* @server.tool(name) applied to fn: decorator(fn). The tools are registered
\* when the module is loaded, before the runtime invokes the handler.
tool(name, fn) ==
    /\ served.event = NoEvent
    /\ tools' = DictSet(tools, ToolName(name, fn), fn)
    /\ registered' =
         [last |-> [registered.last EXCEPT ![ToolName(name, fn)] = fn],
          replaced |-> registered.replaced
                       \/ registered.last[ToolName(name, fn)] \notin {None, fn}]
    /\ UNCHANGED <<served, tool_raised, clientVars, loopVars, mainVars>>

\* lambda_handler(event, context): server.handle(event, context)
handle(event, feed) ==
    LET h == Handle(tools, event, feed)
    IN /\ served' = Served(event, feed, h)
       /\ tool_raised' =
            (tool_raised
             \/ \E i \in 1..Len(h.invoked) :
                  CallFn(h.invoked[i].fn, h.invoked[i].arguments, feed).kind = "raise")
       /\ UNCHANGED <<tools, registered, clientVars, loopVars, mainVars>>

LambdaNext ==
    \/ \E name \in RegisteredAs, fn \in Fns : tool(name, fn)
    \/ \E event \in Events, feed \in Feeds : handle(event, feed)

LambdaSpec == Init /\ [][LambdaNext]_vars

(***************************************************************************)
(* chat_with_llm(): the tool-dispatch loop                                 *)
(* (src/slack-bot-for-aws-news-socket-mode/bot.py). The model is called    *)
(* synchronously; the loop's only await is mcp_client.call_tool().         *)
(***************************************************************************)
max_iterations == 5

\* An entry of messages. An entry without tool calls has no tool_calls, an
\* entry that answers no tool call has no tool_call_id (None).
Message(role, content, calls_made, tool_call_id) ==
    [role |-> role, content |-> content, tool_calls |-> calls_made,
     tool_call_id |-> tool_call_id]

\* system_message, and {"role": "user", "content": user_message}
system_message == Message("system", JStr("You are AWS News Bot"), <<>>, None)
UserMessage(user_message) == Message("user", JStr(user_message), <<>>, None)

\* A tool call of a reply: tool_call.id, tool_call.function.name and what
\* tool_call.function.arguments spells (NotJson: no JSON text).
ToolCall(id, name, arguments) == [id |-> id, name |-> name, arguments |-> arguments]

\* What the call of the model yields: a message with content and
\* tool_calls, or an exception.
ModelMessage(content, calls_made) ==
    [kind |-> "message", content |-> content, tool_calls |-> calls_made, exc |-> NoExc]
ModelRaises(cls, msg) ==
    [kind |-> "raise", content |-> JNull, tool_calls |-> <<>>, exc |-> [cls |-> cls, msg |-> msg]]

\* The n-th reply with the ids the model gives its tool calls: each call
\* has an id of its own.
WithIds(reply, n) ==
    [reply EXCEPT !.tool_calls =
        [i \in 1..Len(reply.tool_calls) |->
            [reply.tool_calls[i] EXCEPT
                !.id = "call_" \o IntToStr(n) \o "_" \o IntToStr(i)]]]

\* AssistantRecord without the tool_calls of the reply.
AssistantRecordNoCalls(assistant_message) ==
    Message("assistant", assistant_message.content, <<>>, None)

\* The entry appended for a reply with tool calls.
AssistantRecord(assistant_message) ==
    Message("assistant", assistant_message.content, assistant_message.tool_calls, None)

\* AppendToolResult without the append.
DropToolResult(msgs, tool_call, tool_response) == msgs

\* messages.append({"role": "tool", ...}) with what call_tool() returned
\* (None when it returned nothing).
AppendToolResult(msgs, tool_call, tool_response) ==
    Append(msgs,
           Message("tool",
                   IF tool_response.kind = "return" THEN tool_response.val ELSE JNull,
                   <<>>, tool_call.id))

\* json.loads(tool_call.function.arguments)
LoadsArguments(arguments) == ResponseJson(arguments)

Apology ==
    "I apologize, but I reached the maximum number of tool calls. Please try simplifying your question."

\* ChatExcept without the except clause: the exception leaves the loop.
ChatNoExcept(r) == r

\* The except clause of the loop's try block: `except Exception as e`.
ChatExcept(r) ==
    IF r.kind = "raise" /\ IsException(r.exc)
    THEN Ret(JStr("I encountered an error: " \o r.exc.msg))
    ELSE r

\* The loop's variables after a step.
Loop(at, msgs, it, tcs, k, out, sub) ==
    /\ loop_pc' = at
    /\ messages' = msgs
    /\ iteration' = it
    /\ tool_calls' = tcs
    /\ tool_index' = k
    /\ answer' = out
    /\ submitted' = sub
    /\ UNCHANGED conversation_history

\* chat_with_llm() yields out.
ChatReturn(msgs, tcs, k, out) == Loop("done", msgs, iteration, tcs, k, out, submitted)

\* While with the test `iteration <= max_iterations`.
WhileOneMore(msgs, tcs, k) ==
    IF iteration <= max_iterations
    THEN Loop("model", msgs, iteration + 1, tcs, k, answer, Append(submitted, msgs))
    ELSE ChatReturn(msgs, tcs, k, Ret(JStr(Apology)))

\* `while iteration < max_iterations`, to the call of the model with
\* messages, or to the return after the loop.
While(msgs, tcs, k) ==
    IF iteration < max_iterations
    THEN Loop("model", msgs, iteration + 1, tcs, k, answer, Append(submitted, msgs))
    ELSE ChatReturn(msgs, tcs, k, Ret(JStr(Apology)))

\* ForToolCalls that leaves the tool calls of the last iteration out.
ForToolCallsSkipAtCap(msgs, tcs, k) ==
    IF k > Len(tcs) \/ iteration >= max_iterations
    THEN While(msgs, tcs, k) /\ UNCHANGED clientVars
    ELSE LET function_args == LoadsArguments(tcs[k].arguments)
         IN IF function_args.kind = "raise"
            THEN ChatReturn(msgs, tcs, k, ChatExcept(function_args)) /\ UNCHANGED clientVars
            ELSE /\ Loop("tool", msgs, iteration, tcs, k, answer, submitted)
                 /\ calls' = calls + 1
                 /\ CallToolEnter(MainCaller, tcs[k].name)

\* `for tool_call in assistant_message.tool_calls` from its k-th item: to
\* the first await of call_tool(), to the except clause, or past the end of
\* the list back to the while.
ForToolCalls(msgs, tcs, k) ==
    IF k > Len(tcs)
    THEN While(msgs, tcs, k) /\ UNCHANGED clientVars
    ELSE LET function_args == LoadsArguments(tcs[k].arguments)
         IN IF function_args.kind = "raise"
            THEN ChatReturn(msgs, tcs, k, ChatExcept(function_args)) /\ UNCHANGED clientVars
            ELSE /\ Loop("tool", msgs, iteration, tcs, k, answer, submitted)
                 /\ calls' = calls + 1
                 /\ CallToolEnter(MainCaller, tcs[k].name)

\* chat_with_llm that builds messages in the caller's list.
chat_with_llm_in_place(user_message, history) ==
    /\ loop_pc = "idle"
    /\ messages' = <<system_message>> \o history.items \o <<UserMessage(user_message)>>
    /\ conversation_history' = History(messages')
    /\ loop_pc' = "model"
    /\ iteration' = 1
    /\ submitted' = <<messages'>>
    /\ UNCHANGED <<tool_calls, tool_index, answer, replies, clientVars, responderVars, mainVars>>

\* A caller invokes chat_with_llm(user_message, conversation_history): to
\* the first call of the model.
chat_with_llm(user_message, history) ==
    /\ loop_pc = "idle"
    /\ conversation_history' = history
    /\ loop_pc' = "model"
    /\ messages' = <<system_message>> \o history.items \o <<UserMessage(user_message)>>
    /\ iteration' = 1
    /\ submitted' = <<messages'>>
    /\ UNCHANGED <<tool_calls, tool_index, answer, replies, clientVars, responderVars, mainVars>>

\* ModelReply without `if not assistant_message.tool_calls: return`.
ModelReplyNoReturn(reply) ==
    /\ loop_pc = "model"
    /\ LET response == WithIds(reply, Len(replies) + 1)
       IN /\ replies' = Append(replies, response)
          /\ IF response.kind = "raise"
             THEN /\ ChatReturn(messages, <<>>, 0,
                                ChatExcept(Raise(response.exc.cls, response.exc.msg)))
                  /\ UNCHANGED clientVars
             ELSE ForToolCalls(Append(messages, AssistantRecord(response)),
                               response.tool_calls, 1)
    /\ UNCHANGED <<responderVars, mainVars>>

\* The call of the model yields: the loop from there to the first await of
\* call_tool(), or to its return.
ModelReply(reply) ==
    /\ loop_pc = "model"
    /\ LET response == WithIds(reply, Len(replies) + 1)
       IN /\ replies' = Append(replies, response)
          /\ IF response.kind = "raise"
             THEN /\ ChatReturn(messages, <<>>, 0,
                                ChatExcept(Raise(response.exc.cls, response.exc.msg)))
                  /\ UNCHANGED clientVars
             ELSE IF response.tool_calls = <<>>
             THEN ChatReturn(messages, <<>>, 0, Ret(response.content)) /\ UNCHANGED clientVars
             ELSE ForToolCalls(Append(messages, AssistantRecord(response)),
                               response.tool_calls, 1)
    /\ UNCHANGED <<responderVars, mainVars>>

\* ToolReturns when an error text returned by call_tool() ends the loop
\* with that text.
ToolReturnsEndsOnError ==
    /\ loop_pc = "tool"
    /\ pc[MainCaller] = "idle"
    /\ LET tool_response == frame[MainCaller].out
       IN IF tool_response.kind = "raise"
          THEN /\ ChatReturn(messages, tool_calls, tool_index, ChatExcept(tool_response))
               /\ UNCHANGED clientVars
          ELSE IF IsStr(tool_response.val) /\ StartsWith(tool_response.val.s, "Error")
          THEN /\ ChatReturn(messages, tool_calls, tool_index, tool_response)
               /\ UNCHANGED clientVars
          ELSE ForToolCalls(AppendToolResult(messages, tool_calls[tool_index], tool_response),
                            tool_calls, tool_index + 1)
    /\ UNCHANGED <<replies, responderVars, mainVars>>

\* call_tool() has yielded: the loop from there to the next await or to
\* its return.
ToolReturns ==
    /\ loop_pc = "tool"
    /\ pc[MainCaller] = "idle"
    /\ LET tool_response == frame[MainCaller].out
       IN IF tool_response.kind = "raise"
          THEN /\ ChatReturn(messages, tool_calls, tool_index, ChatExcept(tool_response))
               /\ UNCHANGED clientVars
          ELSE ForToolCalls(AppendToolResult(messages, tool_calls[tool_index], tool_response),
                            tool_calls, tool_index + 1)
    /\ UNCHANGED <<replies, responderVars, mainVars>>

\* What the model answers: a final answer, tool calls whose argument
\* strings are JSON texts or not, or an exception.
ModelReplies ==
    LET GoodCall == ToolCall("", "get_aws_news", JDict(<< <<"topic", JStr("s3")>> >>))
        BadCall == ToolCall("", "get_aws_news", NotJson)
    IN { ModelMessage(JStr("answer"), <<>>),
         ModelMessage(JNull, << GoodCall >>),
         ModelMessage(JNull, << GoodCall, GoodCall >>),
         ModelMessage(JNull, << BadCall >>),
         ModelMessage(JNull, << GoodCall, BadCall >>),
         ModelRaises("APIConnectionError", "Connection error.") }

\* The conversation_history given to chat_with_llm().
Histories ==
    { NoHistory,
      History(<< UserMessage("before"),
                 Message("assistant", JStr("earlier answer"), <<>>, None) >>) }

\* The server's answers to tools/call while the loop runs.
LoopToolResponses ==
    { HttpResponse(200, NoHeader, "application/json", TextEnvelope(JStr("X")), <<>>),
      HttpResponse(500, NoHeader, "application/json", ErrorEnvelope, <<>>) }

LoopNext ==
    \/ \E history \in Histories : chat_with_llm("hi", history)
    \/ \E reply \in ModelReplies : ModelReply(reply)
    \/ ToolReturns
    \/ InitializeResponse(MainCaller,
                          HttpResponse(200, "s1", "application/json", InitResult, <<>>))
    \/ NotificationResponse(MainCaller, HttpResponse(202, NoHeader, "", NoPayload, <<>>))
    \/ \E response \in LoopToolResponses : ToolsCallResponse(MainCaller, response)

LoopSpec == Init /\ [][LoopNext]_vars

\* The loop runs on: the code between two awaits is executed, the call of
\* the model returns or raises, and every request of the client is answered
\* or fails (the client's timeout).
FairLoopSpec == LoopSpec /\ WF_vars(LoopNext)

(***************************************************************************)
(* The handlers of the Slack events and the weekly digest: coroutines that *)
(* run as tasks of one event loop, each `await chat_with_llm(...)`, which  *)
(* awaits mcp_client.call_tool() of the one module-level client. No lock   *)
(* is taken: a task whose chat_with_llm() is not inside a call_tool() can  *)
(* start one while the call_tool() of another task is at an await.         *)
(***************************************************************************)
ConcurrentNext ==
    \/ \E c \in Callers, name \in ToolNames : call_tool(c, name)
    \/ \E c \in Callers :
          InitializeResponse(c, HttpResponse(200, "s1", "application/json", InitResult, <<>>))
    \/ \E c \in Callers :
          NotificationResponse(c, HttpResponse(202, NoHeader, "", NoPayload, <<>>))
    \/ \E c \in Callers, response \in LoopToolResponses : ToolsCallResponse(c, response)

ConcurrentSpec == Init /\ [][ConcurrentNext]_vars

(***************************************************************************)
(* The session client with the Lambda responder of main.py as its server:  *)
(* a request the client posts is the body of the event the handler is      *)
(* invoked with, and what the handler returns is the HTTP response.        *)
(***************************************************************************)
\* The event for a posted request: the body is json_rpc_request as the
\* client builds it for the method, arguments the `arguments` of call_tool().
RequestEvent(request, arguments) ==
    LET params ==
            IF request.method = "initialize"
            THEN << <<"params",
                      JDict(<< <<"protocolVersion", JStr("2025-03-26")>>,
                               <<"capabilities", JDict(<<>>)>>,
                               <<"clientInfo",
                                 JDict(<< <<"name", JStr("aws-news-slack-bot")>>,
                                          <<"version", JStr("1.0.0")>> >>)>> >>)>> >>
            ELSE IF request.method = "tools/call"
            THEN << <<"params", JDict(<< <<"name", JStr(request.name)>>,
                                         <<"arguments", arguments>> >>)>> >>
            ELSE <<>>
        id == IF request.id = NoId THEN <<>> ELSE << <<"id", JInt(request.id)>> >>
    IN LambdaEvent(RpcRequest(<< <<"method", JStr(request.method)>> >> \o params \o id),
                   "text", FALSE)

\* GatewayResponse with the body declared an event stream.
GatewayResponseAsStream(out) ==
    IF out.kind = "return"
    THEN HttpResponse(out.val.statusCode, NoHeader, "text/event-stream", out.val.envelope, <<>>)
    ELSE HttpResponse(502, NoHeader, "application/json",
                      JDict(<< <<"message", JStr("Internal Server Error")>> >>), <<>>)

\* The HTTP response for what lambda_handler yields: statusCode, the
\* Content-Type header and the body of the dict returned (response.json()
\* of the text json.dumps wrote is the envelope dumped), no Mcp-Session-Id
\* header; 502 when the handler raised.
GatewayResponse(out) ==
    IF out.kind = "return"
    THEN HttpResponse(out.val.statusCode, NoHeader, out.val.headers.ContentType,
                      out.val.envelope, <<>>)
    ELSE HttpResponse(502, NoHeader, "application/json",
                      JDict(<< <<"message", JStr("Internal Server Error")>> >>), <<>>)

\* main.py is loaded, which registers get_aws_feed_news under its own name;
\* then one task uses the client. The request posted last is handled once,
\* then its response reaches the await of the client (a request equal to
\* the one handled last gets the same response again).
EndToEndNext ==
    LET CallArguments ==
            { JDict(<<>>), JDict(<< <<"max_articles", JInt(1)>> >>),
              JDict(<< <<"max_articles", JInt(1)>>, <<"search_keywords", JStr("S3")>> >>),
              JDict(<< <<"topic", JStr("s3")>> >>) }
        Handled_ == \E arguments \in CallArguments :
                        served.event = RequestEvent(sent[Len(sent)], arguments)
    IN \/ tool(None, "get_aws_feed_news")
       \/ tools # <<>> /\ initialize(MainCaller)
       \/ tools # <<>> /\ \E name \in ToolNames \cup {"get_aws_feed_news"} :
                              call_tool(MainCaller, name)
       \/ \E arguments \in CallArguments, feed \in Feeds :
             /\ pc[MainCaller] # "idle"
             /\ ~Handled_
             /\ handle(RequestEvent(sent[Len(sent)], arguments), feed)
       \/ /\ pc[MainCaller] # "idle"
          /\ Handled_
          /\ LET response == GatewayResponse(served.out)
             IN \/ InitializeResponse(MainCaller, response)
                \/ NotificationResponse(MainCaller, response)
                \/ ToolsCallResponse(MainCaller, response)

EndToEndSpec == Init /\ [][EndToEndNext]_vars

(***************************************************************************)
(* main(): the checks at start-up, then the Slack handler runs until the   *)
(* program ends. mcp_client exists from the load of the module on.         *)
(***************************************************************************)
\* MCPClient.close(): `await self.client.aclose()`.
close ==
    /\ closed' = TRUE
    /\ UNCHANGED <<main_pc, exit_path, clientVars, responderVars, loopVars>>

\* main() from its call to `return` for missing environment variables, or
\* through validate_azure_openai() and the health request, neither of which
\* touches the session, to `await mcp_client.initialize()` of
\* validate_mcp_server().
main(missing_vars) ==
    /\ main_pc = "start"
    /\ IF missing_vars
       THEN /\ main_pc' = "exited"
            /\ exit_path' = "missing environment"
            /\ UNCHANGED clientVars
       ELSE /\ main_pc' = "init"
            /\ calls' = calls + 1
            /\ InitializeEnter(MainCaller, NewFrame("initialize", ""))
            /\ UNCHANGED exit_path
    /\ UNCHANGED <<closed, responderVars, loopVars>>

\* validate_mcp_server() after an await: after initialize() to the test
\* call_tool("get_aws_feed_news", ...) or, when it yielded no True, to its
\* return; after the call_tool() to its return. main() goes on to
\* setup_scheduler() and `await handler.start_async()` whatever it returned.
validate_mcp_server ==
    /\ main_pc \in {"init", "tool"}
    /\ pc[MainCaller] = "idle"
    /\ IF main_pc = "init" /\ frame[MainCaller].out = Ret(JBool(TRUE))
       THEN /\ main_pc' = "tool"
            /\ calls' = calls + 1
            /\ CallToolEnter(MainCaller, "get_aws_feed_news")
       ELSE /\ main_pc' = "serving"
            /\ UNCHANGED clientVars
    /\ UNCHANGED <<exit_path, closed, responderVars, loopVars>>

\* main() ends: handler.start_async() returns or raises an Exception, which
\* the except clause logs, or the program is interrupted at an await (the
\* task of main() is cancelled). No path calls mcp_client.close().
main_exit(path) ==
    /\ IF path = "KeyboardInterrupt" THEN main_pc \in {"init", "tool", "serving"}
       ELSE main_pc = "serving"
    /\ main_pc' = "exited"
    /\ exit_path' = path
    /\ UNCHANGED <<closed, clientVars, responderVars, loopVars>>

\* The program: main(), and while it serves the handlers' tasks, which
\* call call_tool() of mcp_client. close() has no call site in the
\* repository, so no step of the program is close.
MainNext ==
    \/ \E missing_vars \in BOOLEAN : main(missing_vars)
    \/ validate_mcp_server
    \/ main_pc = "serving" /\ \E c \in Callers, name \in ToolNames : call_tool(c, name)
    \/ /\ main_pc \in {"init", "tool", "serving"}
       /\ \E c \in Callers, response \in
                { HttpResponse(200, "s1", "application/json", InitResult, <<>>),
                  TransportError("All connection attempts failed") } :
              InitializeResponse(c, response)
    \/ /\ main_pc \in {"init", "tool", "serving"}
       /\ \E c \in Callers :
              NotificationResponse(c, HttpResponse(202, NoHeader, "", NoPayload, <<>>))
    \/ /\ main_pc \in {"init", "tool", "serving"}
       /\ \E c \in Callers, response \in LoopToolResponses : ToolsCallResponse(c, response)
    \/ \E path \in {"returned", "start-up error", "KeyboardInterrupt"} : main_exit(path)

MainSpec == Init /\ [][MainNext]_vars

(***************************************************************************)
(* Properties of the session client.                                       *)
(***************************************************************************)
\* The ids of the requests posted so far that carry one, oldest first.
SentIds == SelectSeq([i \in 1..Len(sent) |-> sent[i].id], LAMBDA id : id # NoId)

\* C1: over any sequence of initialize() and call_tool() invocations on one
\* session, failed ones included, the ids of the requests the client sends
\* (the handshake's 0 and every tools/call id) are strictly increasing, so
\* no id is sent twice.
C1_RequestIdsStrictlyIncreasing ==
    \A i, j \in 1..Len(SentIds) : i < j => SentIds[i] < SentIds[j]

\* C2: whenever call_tool() posts a tools/call request the session is
\* initialized: the initialized flag is true at the post.
C2_ToolsCallOnlyWhenInitialized ==
    \A i \in 1..Len(sent) : sent[i].method = "tools/call" => sent[i].initialized

\* C3: once an initialize() has returned True, every initialize() invoked
\* later returns True at once and posts no request.
C3_InitializeIdempotent ==
    \A c \in Callers :
        (frame[c].op = "initialize" /\ frame[c].prior)
            => /\ pc[c] = "idle"
               /\ frame[c].nsent = 0
               /\ frame[c].out = Ret(JBool(TRUE))

\* Two initialize() invocations in a row, the first successful: the second
\* has returned and the handshake was posted once.
C3_Witness ==
    /\ calls = 2
    /\ pc[MainCaller] = "idle"
    /\ frame[MainCaller].op = "initialize" /\ frame[MainCaller].prior
    /\ Len(sent) = 2

\* C4: once the client holds a session id issued by the server, every
\* request it posts (an initialize sent again, notifications/initialized,
\* tools/call) carries that id in the Mcp-Session-Id header.
C4_SessionIdOnEveryRequest ==
    \A i \in 1..Len(sent) :
        sent[i].session_id # None => sent[i].header = sent[i].session_id

\* The initialize response that makes initialize() fail: no response, an
\* HTTP error status, or a JSON body that does not parse.
InitRequestFailed(response) ==
    \/ response.exc # ""
    \/ ~IsSuccess(response.status)
    \/ (~IsEventStream(response.ctype) /\ response.body = NotJson)

\* What C5 says of every initialize() that has yielded, but for the
\* notification step: a value and no exception, False when the initialize
\* request failed.
InitializeYieldsBoolean(fr) ==
    /\ fr.init.kind = "return"
    /\ fr.init.val \in {JBool(TRUE), JBool(FALSE)}
    /\ (fr.at = "initialize" /\ InitRequestFailed(fr.resp)) => fr.init = Ret(JBool(FALSE))

\* C5 as stated: initialize() never raises, and returns False for every
\* transport failure, HTTP error status or unparseable body, at the
\* initialize request or at the notifications/initialized step.
C5_Original ==
    \A c \in Callers :
        frame[c].init # NotYet
            => /\ InitializeYieldsBoolean(frame[c])
               /\ (/\ frame[c].at = "notifications/initialized"
                   /\ (frame[c].resp.exc # "" \/ ~IsSuccess(frame[c].resp.status)))
                      => frame[c].init = Ret(JBool(FALSE))

\* C5 as amended: initialize() never raises; it returns False for every
\* transport failure at either step and for every HTTP error status or
\* unparseable JSON body of the initialize response; once the notification
\* was answered, with any status, it returns True.
C5_InitializeNeverRaises ==
    \A c \in Callers :
        frame[c].init # NotYet
            => /\ InitializeYieldsBoolean(frame[c])
               /\ (frame[c].at = "notifications/initialized" /\ frame[c].resp.exc # "")
                      => frame[c].init = Ret(JBool(FALSE))
               /\ (frame[c].at = "notifications/initialized" /\ frame[c].resp.exc = "")
                      => frame[c].init = Ret(JBool(TRUE))

\* An initialize() invocation has returned False after the post of the
\* notification failed.
C5_Witness ==
    /\ pc[MainCaller] = "idle"
    /\ frame[MainCaller].op = "initialize"
    /\ frame[MainCaller].at = "notifications/initialized"
    /\ frame[MainCaller].resp.exc = "HTTPError"
    /\ frame[MainCaller].out = Ret(JBool(FALSE))

\* The tools/call request failed in transport: no response, or a status
\* outside 2xx.
TransportFailure(response) == response.exc # "" \/ ~IsSuccess(response.status)

\* C6: call_tool() never propagates an exception: a transport failure ends
\* in a returned string that starts with "Error calling tool:", and every
\* exception raised in the try block in a returned string that starts with
\* "Error calling tool:" or "Error: ".
C6_CallToolNeverRaises ==
    \A c \in Callers :
        (frame[c].op = "call_tool" /\ pc[c] = "idle")
            => /\ frame[c].out.kind = "return"
               /\ frame[c].raw.kind = "raise"
                    => /\ IsStr(frame[c].out.val)
                       /\ \/ StartsWith(frame[c].out.val.s, "Error calling tool:")
                          \/ StartsWith(frame[c].out.val.s, "Error: ")
               /\ (frame[c].at = "tools/call" /\ TransportFailure(frame[c].resp))
                    => /\ IsStr(frame[c].out.val)
                       /\ StartsWith(frame[c].out.val.s, "Error calling tool:")

\* A call_tool() whose decoding raised (no httpx error) has returned an
\* "Error: " string.
C6_Witness ==
    /\ pc[MainCaller] = "idle"
    /\ frame[MainCaller].op = "call_tool"
    /\ frame[MainCaller].raw.kind = "raise"
    /\ ~IsHTTPError(frame[MainCaller].raw.exc)
    /\ IsStr(frame[MainCaller].out.val)
    /\ StartsWith(frame[MainCaller].out.val.s, "Error: ")

\* A call_tool() has returned after a 2xx answer decoded as JSON.
JsonAnswered(c) ==
    /\ pc[c] = "idle"
    /\ frame[c].op = "call_tool"
    /\ frame[c].at = "tools/call"
    /\ ~TransportFailure(frame[c].resp)
    /\ ~IsEventStream(frame[c].resp.ctype)
    /\ frame[c].resp.body.t \notin {"notjson", "nothing"}

\* A call_tool() has returned after a 2xx answer decoded as an event stream.
SseAnswered(c) ==
    /\ pc[c] = "idle"
    /\ frame[c].op = "call_tool"
    /\ frame[c].at = "tools/call"
    /\ ~TransportFailure(frame[c].resp)
    /\ IsEventStream(frame[c].resp.ctype)

\* result.content is a non-empty list whose first element has a text field.
HasContentText(tool_result) ==
    /\ IsDict(tool_result) /\ HasKey(tool_result, "content")
    /\ IsList(Get(tool_result, "content")) /\ ListLen(Get(tool_result, "content")) > 0
    /\ IsDict(First(Get(tool_result, "content")))
    /\ HasKey(First(Get(tool_result, "content")), "text")
\* result.content[0].text
ContentTextOf(tool_result) == Get(First(Get(tool_result, "content")), "text")

\* What C7 says call_tool() returns for a JSON body without an error key.
C7_Expected(body) ==
    IF IsDict(body) /\ HasKey(body, "result")
    THEN LET tool_result == Get(body, "result")
         IN IF HasContentText(tool_result) THEN ContentTextOf(tool_result)
            ELSE IF IsStr(tool_result) THEN tool_result
            ELSE JStr(Dumps(tool_result))
    ELSE JStr(Dumps(body))

\* C7: for a JSON response without an error key, call_tool() returns
\* result.content[0].text when result.content is a non-empty list whose
\* first element has a text field, otherwise result when it is a string,
\* otherwise the JSON serialization of result, and the JSON serialization
\* of the whole response when it has no result key.
C7_JsonResultDecoded ==
    \A c \in Callers :
        (JsonAnswered(c) /\ ~(IsDict(frame[c].resp.body) /\ HasKey(frame[c].resp.body, "error")))
            => frame[c].out = Ret(C7_Expected(frame[c].resp.body))

\* C8: for a JSON response with an error key, call_tool() does not raise
\* and returns a string; when the error is an object with a message string,
\* the returned string is "Error from MCP server: " followed by that
\* message, whether or not the envelope also has a result key.
C8_JsonErrorReported ==
    \A c \in Callers :
        (JsonAnswered(c) /\ IsDict(frame[c].resp.body) /\ HasKey(frame[c].resp.body, "error"))
            => LET error == Get(frame[c].resp.body, "error")
               IN /\ frame[c].out.kind = "return"
                  /\ IsStr(frame[c].out.val)
                  /\ (IsDict(error) /\ HasKey(error, "message") /\ IsStr(Get(error, "message")))
                        => /\ Contains(frame[c].out.val.s, Get(error, "message").s)
                           /\ frame[c].out.val.s
                                = "Error from MCP server: " \o Get(error, "message").s

\* A call_tool() has returned the server's message for an envelope that has
\* both an error and a result key.
C8_Witness ==
    /\ JsonAnswered(MainCaller)
    /\ HasKey(frame[MainCaller].resp.body, "error")
    /\ HasKey(frame[MainCaller].resp.body, "result")
    /\ frame[MainCaller].out = Ret(JStr("Error from MCP server: boom"))

\* Whether a line is a "data: " line whose payload is valid JSON with
\* result.content[0].text.
LineHasText(line) ==
    /\ IsDataLine(line)
    /\ LoadsData(line).kind = "return"
    /\ IsDict(line.payload) /\ HasKey(line.payload, "result")
    /\ HasContentText(Get(line.payload, "result"))

\* The lines of the body that have a text, in order.
TextLines(response) == SelectSeq(StripSplit(response.lines), LineHasText)

\* C9: for a text/event-stream response, call_tool() skips the lines that
\* are no "data: " line, whose payload is not valid JSON or that lack
\* result.content[0].text, and returns the text of the first line that has
\* it.
C9_SseFirstTextReturned ==
    \A c \in Callers :
        (SseAnswered(c) /\ Len(TextLines(frame[c].resp)) > 0)
            => frame[c].out
                 = Ret(ContentTextOf(Get(TextLines(frame[c].resp)[1].payload, "result")))

\* C10: for a text/event-stream response in which no "data: " line yields a
\* result with content[0].text, call_tool() returns the parse-failure
\* string.
C10_SseParseFailureReturned ==
    \A c \in Callers :
        (SseAnswered(c) /\ Len(TextLines(frame[c].resp)) = 0)
            => frame[c].out = Ret(JStr(SseParseFailure))

\* The server accepted the initialize request: an HTTP success status, and
\* an event stream or a JSON-RPC envelope with a result member.
HandshakeAccepted(response) ==
    /\ response.exc = ""
    /\ IsSuccess(response.status)
    /\ \/ IsEventStream(response.ctype)
       \/ IsDict(response.body) /\ HasKey(response.body, "result")

\* C20: handshake ordering. notifications/initialized is posted only after
\* an initialize request that the server accepted; the initialized flag is
\* false as long as that notification is unanswered, and it is never true
\* in a state where no notification was posted.
C20_HandshakeOrdering ==
    /\ \A c \in Callers :
          pc[c] = "notif_wait"
              => /\ frame[c].at = "initialize"
                 /\ HandshakeAccepted(frame[c].resp)
                 /\ ~initialized
    /\ \A i \in 1..Len(sent) :
          sent[i].method = "notifications/initialized"
              => /\ i > 1
                 /\ sent[i - 1].method = "initialize"
                 /\ ~sent[i].initialized
    /\ initialized => \E i \in 1..Len(sent) : sent[i].method = "notifications/initialized"

(***************************************************************************)
(* Properties of the Lambda responder.                                     *)
(***************************************************************************)
\* The event carries the text of a JSON-RPC request object, encoded as its
\* flag says.
CarriesRequest(event) ==
    /\ event # NoEvent
    /\ event.enc = (IF event.isBase64Encoded THEN "base64" ELSE "text")
    /\ IsDict(event.body)

\* The method and the id of the request an event carries (None when absent).
RpcMethod(event) == GetOrNone(event.body, "method")
RpcId(event) == GetOrNone(event.body, "id")

\* The event carries a tools/call request whose params, when present, are
\* an object.
CarriesToolsCall(event) ==
    /\ CarriesRequest(event)
    /\ RpcMethod(event) = JStr("tools/call")
    /\ HasKey(event.body, "params") => IsDict(Get(event.body, "params"))

\* params.name and params.arguments of a tools/call request.
CallName(event) ==
    IF HasKey(event.body, "params") THEN GetOrNone(Get(event.body, "params"), "name")
    ELSE JNull
CallArgs(event) ==
    IF HasKey(event.body, "params") /\ HasKey(Get(event.body, "params"), "arguments")
    THEN Get(Get(event.body, "params"), "arguments")
    ELSE JDict(<<>>)

\* handle() returned a transport envelope with statusCode 200 whose body
\* spells a JSON-RPC 2.0 envelope.
ReturnedEnvelope(out) ==
    /\ out.kind = "return"
    /\ out.val.statusCode = 200
    /\ out.val.headers.ContentType = "application/json"
    /\ out.val.body = DumpsFlat(out.val.envelope)
    /\ IsDict(out.val.envelope)
    /\ HasKey(out.val.envelope, "jsonrpc")
    /\ Get(out.val.envelope, "jsonrpc") = JStr("2.0")
    /\ HasKey(out.val.envelope, "id")
    /\ HasKey(out.val.envelope, "result") # HasKey(out.val.envelope, "error")

\* handle() returned the JSON-RPC error envelope with the message and id.
ReturnedError(out, id, message) ==
    /\ ReturnedEnvelope(out)
    /\ HasKey(out.val.envelope, "error")
    /\ Get(out.val.envelope, "error") = JDict(<< <<"message", JStr(message)>> >>)
    /\ Get(out.val.envelope, "id") = id

\* C14: for every inbound event handle() returns a transport envelope with
\* statusCode 200 whose body is a JSON-RPC 2.0 envelope that carries the
\* id of the request; it never raises.
C14_AlwaysEnvelope ==
    served.event # NoEvent
        => /\ ReturnedEnvelope(served.out)
           /\ CarriesRequest(served.event)
                 => Get(served.out.val.envelope, "id") = RpcId(served.event)

\* The tools/call request of the round trip: echo with {"x": "hi"}.
EchoHi ==
    RpcRequest(<< <<"method", JStr("tools/call")>>,
                  <<"params", JDict(<< <<"name", JStr("echo")>>,
                                       <<"arguments", JDict(<< <<"x", JStr("hi")>> >>)>> >>)>>,
                  <<"id", JInt(1)>> >>)

\* C15: with echo registered as "echo", the tools/call request with
\* arguments {"x": "hi"} is answered by a body whose JSON-RPC result has
\* content[0].text equal to "hi".
C15_EchoRoundTrip ==
    (/\ served.event = LambdaEvent(EchoHi, "text", FALSE)
     /\ registered.last["echo"] = "echo")
        => /\ ReturnedEnvelope(served.out)
           /\ HasKey(served.out.val.envelope, "result")
           /\ HasContentText(Get(served.out.val.envelope, "result"))
           /\ ContentTextOf(Get(served.out.val.envelope, "result")) = JStr("hi")

\* The names with a registration, and the names a tools/list answer lists.
RegisteredNames == {n \in DOMAIN registered.last : registered.last[n] # None}
ListedNames(out) ==
    LET listed == Get(Get(out.val.envelope, "result"), "tools")
    IN [i \in 1..ListLen(listed) |-> Get(listed.kids[i].v, "name")]

\* C16: a tools/list request is answered with the registered names, each
\* once, whatever registrations came before; a name registered again keeps
\* one entry, and a tools/call of it invokes the callable registered last.
C16_ToolsListNames ==
    /\ (CarriesRequest(served.event) /\ RpcMethod(served.event) = JStr("tools/list"))
          => /\ ReturnedEnvelope(served.out)
             /\ HasKey(served.out.val.envelope, "result")
             /\ Get(served.out.val.envelope, "id") = RpcId(served.event)
             /\ LET names == ListedNames(served.out)
                IN /\ {names[i] : i \in DOMAIN names} = {JStr(n) : n \in RegisteredNames}
                   /\ \A i, j \in DOMAIN names : names[i] = names[j] => i = j
    /\ (/\ CarriesToolsCall(served.event)
        /\ IsStr(CallName(served.event))
        /\ CallName(served.event).s \in RegisteredNames)
          => served.invoked = << [name |-> CallName(served.event).s,
                                  fn |-> registered.last[CallName(served.event).s],
                                  arguments |-> CallArgs(served.event)] >>

\* A tools/list request was answered after a registration replaced the
\* callable of a name, with two names registered.
C16_Witness ==
    /\ CarriesRequest(served.event)
    /\ RpcMethod(served.event) = JStr("tools/list")
    /\ registered.replaced
    /\ Cardinality(RegisteredNames) = 2
    /\ served.out.kind = "return"

\* str() of a JSON scalar or list as Python holds it.
Shown(v) == IF IsStr(v) THEN v.s ELSE IF v = JNull THEN "None" ELSE PyRepr(v)

\* The name of a tools/call request is a string or a number, null or absent,
\* and no registered name.
NameNotRegistered(event) ==
    /\ CarriesToolsCall(event)
    /\ CallName(event).t \in {"str", "int", "bool", "null"}
    /\ ~(IsStr(CallName(event)) /\ CallName(event).s \in RegisteredNames)

\* C17: a tools/call request whose name is not registered is answered with
\* statusCode 200 and the JSON-RPC error "Unknown tool: <name>" under the
\* request's id, and no tool is invoked.
C17_UnknownTool ==
    NameNotRegistered(served.event)
        => /\ ReturnedError(served.out, RpcId(served.event),
                            "Unknown tool: " \o Shown(CallName(served.event)))
           /\ served.invoked = <<>>

\* A tools/call of a string name without a registration was answered while
\* another name is registered.
C17_Witness ==
    /\ NameNotRegistered(served.event)
    /\ IsStr(CallName(served.event))
    /\ RegisteredNames # {}
    /\ served.out.kind = "return"

\* The registered callable of the last request raised.
ToolRaised ==
    /\ Len(served.invoked) = 1
    /\ CallFn(served.invoked[1].fn, served.invoked[1].arguments, served.feed).kind = "raise"

\* C18: when the registered tool raises during tools/call, handle() returns
\* the JSON-RPC error with the exception's message and that request's id;
\* and a request served after a tool raised is answered all the same.
C18_ToolRaises ==
    /\ ToolRaised
          => ReturnedError(served.out, RpcId(served.event),
                 CallFn(served.invoked[1].fn, served.invoked[1].arguments,
                        served.feed).exc.msg)
    /\ (/\ served.prior_raise
        /\ CarriesRequest(served.event)
        /\ RpcMethod(served.event) = JStr("tools/call")
              => /\ CarriesToolsCall(served.event)
                 /\ CallName(served.event).t \in {"str", "int", "bool", "null"})
          => /\ ReturnedEnvelope(served.out)
             /\ Get(served.out.val.envelope, "id") = RpcId(served.event)

\* A tool raised in a request served after a request in which a tool raised.
C18_Witness == ToolRaised /\ served.prior_raise /\ served.out.kind = "return"

\* The event carries a request of a method other than tools/list and
\* tools/call, a missing method included.
OtherMethod(event) ==
    /\ CarriesRequest(event)
    /\ RpcMethod(event) \notin {JStr("tools/list"), JStr("tools/call")}

\* C19: a request of any method other than tools/list and tools/call is
\* answered with the JSON-RPC error "Unknown method: <method>" under the
\* request's id, and no tool is invoked.
C19_UnknownMethod ==
    OtherMethod(served.event)
        => /\ ReturnedError(served.out, RpcId(served.event),
                            "Unknown method: " \o Shown(RpcMethod(served.event)))
           /\ served.invoked = <<>>

\* An initialize request was answered while tools are registered.
C19_Witness ==
    /\ OtherMethod(served.event)
    /\ RpcMethod(served.event) = JStr("initialize")
    /\ RegisteredNames # {}
    /\ served.out.kind = "return"

(***************************************************************************)
(* Properties of the tool-dispatch loop.                                   *)
(***************************************************************************)
\* Every reply of the model so far requests a tool call.
EveryReplyCalls ==
    \A i \in 1..Len(replies) : replies[i].kind = "message" /\ replies[i].tool_calls # <<>>

\* The argument string of every tool call of the reply is a JSON text.
ArgumentsParse(reply) ==
    \A j \in 1..Len(reply.tool_calls) :
        LoadsArguments(reply.tool_calls[j].arguments).kind = "return"
EveryArgumentParses == \A i \in 1..Len(replies) : ArgumentsParse(replies[i])

\* The loop has returned the apology after max_iterations model calls.
StoppedAtCap ==
    /\ loop_pc = "done"
    /\ Len(replies) = max_iterations
    /\ iteration = max_iterations
    /\ answer = Ret(JStr(Apology))

\* C11 as stated: with a model that requests a tool call in every reply, the
\* loop stops after exactly 5 model calls and returns the apology.
C11_Original == (loop_pc = "done" /\ EveryReplyCalls) => StoppedAtCap

\* C11: the loop terminates, never with more than 5 model calls; with a
\* model that requests a tool call in every reply, each with an argument
\* string that is a JSON text, it stops after exactly 5 iterations (5 model
\* calls) and returns the apology.
C11_Terminates ==
    /\ []((loop_pc = "done" /\ EveryReplyCalls /\ EveryArgumentParses) => StoppedAtCap)
    /\ [](iteration <= max_iterations /\ Len(replies) <= iteration)
    /\ <>(loop_pc = "done")

\* The loop stopped at the cap: five replies, each with tool calls whose
\* arguments parse.
C11_Witness == StoppedAtCap /\ EveryReplyCalls /\ EveryArgumentParses

\* The first tool call of the reply whose argument string is no JSON text.
FirstBad(reply) ==
    CHOOSE j \in 1..Len(reply.tool_calls) :
        /\ LoadsArguments(reply.tool_calls[j].arguments).kind = "raise"
        /\ \A h \in 1..(j - 1) : LoadsArguments(reply.tool_calls[h].arguments).kind = "return"

\* "I encountered an error: " and str(e)
ErrorText(exc) == Ret(JStr("I encountered an error: " \o exc.msg))

\* C12: the loop never raises. When the call of the model raises, the loop
\* ends at once with the error text; when the argument string of a tool
\* call is no JSON text, the loop ends with the error text once the calls
\* before it are executed; and no model call follows an exception.
C12_NeverRaises ==
    /\ answer.kind \in {"none", "return"}
    /\ loop_pc = "done" <=> answer.kind = "return"
    /\ \A i \in 1..Len(replies) :
          /\ replies[i].kind = "raise"
                => /\ i = Len(replies)
                   /\ loop_pc = "done"
                   /\ answer = ErrorText(replies[i].exc)
          /\ (replies[i].kind = "message" /\ ~ArgumentsParse(replies[i]))
                => /\ i = Len(replies)
                   /\ loop_pc \in {"tool", "done"}
                   /\ tool_index <= FirstBad(replies[i])
                   /\ loop_pc = "done"
                         => /\ tool_index = FirstBad(replies[i])
                            /\ answer = ErrorText(LoadsArguments(
                                   replies[i].tool_calls[tool_index].arguments).exc)

\* The loop ended with the error text in its second iteration or later, at
\* the second tool call of a reply, after the first was executed.
C12_Witness ==
    /\ loop_pc = "done"
    /\ Len(replies) >= 2
    /\ ~ArgumentsParse(replies[Len(replies)])
    /\ tool_index = 2
    /\ answer.kind = "return"
    /\ StartsWith(answer.val.s, "I encountered an error: ")

\* C13 as stated: each iteration that executes tool calls adds exactly two
\* entries to the message sequence.
C13_Original ==
    /\ \A i \in 2..Len(submitted) : Len(submitted[i]) = Len(submitted[i - 1]) + 2
    /\ StoppedAtCap => Len(messages) = Len(submitted[Len(submitted)]) + 2

\* What an iteration that executed the tool calls of reply adds to the
\* sequence before: the assistant record, then one result per tool call in
\* the order requested, each tagged with the id of its call.
GrownBy(before, after, reply) ==
    /\ Len(after) = Len(before) + 1 + Len(reply.tool_calls)
    /\ SubSeq(after, 1, Len(before)) = before
    /\ after[Len(before) + 1] = AssistantRecord(reply)
    /\ \A j \in 1..Len(reply.tool_calls) :
          /\ after[Len(before) + 1 + j].role = "tool"
          /\ after[Len(before) + 1 + j].tool_call_id = reply.tool_calls[j].id

\* C13: an iteration that executes the n tool calls of the model's reply
\* adds 1 + n entries to the message sequence, the assistant record and one
\* result per tool call: two entries when n = 1.
C13_Growth ==
    /\ Len(submitted) = iteration
    /\ \A i \in 2..Len(submitted) : GrownBy(submitted[i - 1], submitted[i], replies[i - 1])
    /\ StoppedAtCap
          => GrownBy(submitted[Len(submitted)], messages, replies[Len(replies)])
    /\ loop_pc = "tool"
          => Len(messages) = Len(submitted[Len(submitted)]) + tool_index

\* The model is called again after an iteration that executed two tool
\* calls and added three entries.
C13_Witness ==
    /\ loop_pc = "model"
    /\ Len(submitted) >= 2
    /\ Len(replies[Len(replies)].tool_calls) = 2
    /\ Len(messages) = Len(submitted[Len(submitted) - 1]) + 3

(***************************************************************************)
(* Properties of the handshake and of the requests of one invocation.      *)
(***************************************************************************)
\* The initialize request of caller c is the request answered last, with an
\* HTTP success status.
InitAnswered(c) ==
    /\ frame[c].at = "initialize"
    /\ frame[c].resp.exc = ""
    /\ IsSuccess(frame[c].resp.status)

\* initialize() of caller c went on to the notification; it gave up with
\* False and posted no notification.
InitAccepted(c) == pc[c] = "notif_wait"
InitRejected(c) ==
    /\ pc[c] # "notif_wait"
    /\ frame[c].init = Ret(JBool(FALSE))
    /\ ~initialized

\* C21: an initialize response with a success status is accepted when its
\* content type is text/event-stream; otherwise it is accepted when the JSON
\* body has a result key and rejected when it has an error key and no
\* result key, or neither key.
C21_InitOutcome ==
    \A c \in Callers :
        InitAnswered(c)
            => IF IsEventStream(frame[c].resp.ctype) THEN InitAccepted(c)
               ELSE IF IsDict(frame[c].resp.body) /\ HasKey(frame[c].resp.body, "result")
               THEN InitAccepted(c)
               ELSE InitRejected(c)

\* The notification of caller c is the request answered last, and the
\* answer is an HTTP response.
NotifAnswered(c) ==
    /\ frame[c].at = "notifications/initialized"
    /\ frame[c].resp.exc = ""

\* C22: once the notification posted after an accepted initialize response
\* is answered with an HTTP response, of status 202 or any other, the
\* initialize() that posted it has yielded True and the initialized flag is
\* set.
C22_NotificationStatusIgnored ==
    \A c \in Callers :
        NotifAnswered(c)
            => /\ frame[c].init = Ret(JBool(TRUE))
               /\ initialized
               /\ frame[c].op = "initialize" => (pc[c] = "idle" /\ frame[c].out = Ret(JBool(TRUE)))

\* An initialize() has returned True after its notification was answered
\* with status 500.
C22_Witness ==
    /\ NotifAnswered(MainCaller)
    /\ frame[MainCaller].op = "initialize"
    /\ frame[MainCaller].resp.status = 500
    /\ frame[MainCaller].out = Ret(JBool(TRUE))
    /\ initialized

\* The response carries no Mcp-Session-Id header.
NoSessionHeader(response) == response.sid = NoHeader

\* C23: an initialize response without an Mcp-Session-Id header leaves the
\* session id as it is, unset when it was unset, and the handshake goes on
\* when the response is accepted; every request posted while the session id
\* is unset carries no Mcp-Session-Id header; and an initialized session
\* whose id is unset keeps it unset.
C23_SessionLess ==
    /\ [][\A c \in Callers :
            (pc[c] = "init_wait" /\ pc'[c] # "init_wait" /\ NoSessionHeader(frame'[c].resp))
                => /\ session_id' = session_id
                   /\ HandshakeAccepted(frame'[c].resp) => pc'[c] = "notif_wait"]_vars
    /\ [](\A i \in 1..Len(sent) : sent[i].session_id = None => sent[i].header = NoHeader)
    /\ [][(initialized /\ session_id = None) => session_id' = None]_vars

\* A session initialized without a session id has posted a tools/call
\* request, without the header.
C23_Witness ==
    /\ initialized
    /\ session_id = None
    /\ Len(sent) >= 3
    /\ sent[Len(sent)].method = "tools/call"
    /\ sent[Len(sent)].initialized
    /\ sent[Len(sent)].header = NoHeader

\* The tools/call requests among the last n requests posted.
ToolsCallsAmongLast(n) ==
    Cardinality({i \in (Len(sent) - n + 1)..Len(sent) : sent[i].method = "tools/call"})

\* C24: a call_tool() invocation posts at most one tools/call request: no
\* two tools/call requests carry the same id, nothing is posted once the
\* tools/call request is answered, and an invocation whose request failed
\* in transport has returned an error text.
C24_NoRetry ==
    /\ [](\A i, j \in 1..Len(sent) :
            (sent[i].method = "tools/call" /\ sent[j].method = "tools/call" /\ i # j)
                => sent[i].id # sent[j].id)
    /\ [](frame[MainCaller].op = "call_tool"
            => ToolsCallsAmongLast(frame[MainCaller].nsent) <= 1)
    /\ [][\A c \in Callers :
            pc[c] = "tool_wait" => (sent' = sent /\ pc'[c] \in {"tool_wait", "idle"})]_vars
    /\ [](\A c \in Callers :
            (/\ pc[c] = "idle"
             /\ frame[c].op = "call_tool"
             /\ frame[c].at = "tools/call"
             /\ TransportFailure(frame[c].resp))
                => /\ frame[c].out.kind = "return"
                   /\ IsStr(frame[c].out.val)
                   /\ StartsWith(frame[c].out.val.s, "Error calling tool: "))

\* A call_tool() whose tools/call request was answered with status 500 has
\* returned the error text, one tools/call request posted.
C24_Witness ==
    /\ pc[MainCaller] = "idle"
    /\ frame[MainCaller].op = "call_tool"
    /\ frame[MainCaller].at = "tools/call"
    /\ frame[MainCaller].resp.status = 500
    /\ ToolsCallsAmongLast(frame[MainCaller].nsent) = 1
    /\ IsStr(frame[MainCaller].out.val)
    /\ StartsWith(frame[MainCaller].out.val.s, "Error calling tool: ")

\* The envelope carries the result text call_tool() has returned to caller c.
TextTakenFrom(c, envelope) ==
    /\ IsDict(envelope)
    /\ HasKey(envelope, "result")
    /\ HasContentText(Get(envelope, "result"))
    /\ frame[c].out = Ret(ContentTextOf(Get(envelope, "result")))

\* The envelope carries the id of the request posted last.
IdOfLastRequest(envelope) ==
    /\ HasKey(envelope, "id")
    /\ Get(envelope, "id") = JInt(sent[Len(sent)].id)

\* C25: the text call_tool() has returned is taken from an envelope, the
\* JSON body or the payload of a data line, whose id is the id of the
\* tools/call request the invocation posted.
C25_IdCorrelated ==
    /\ JsonAnswered(MainCaller)
          => (TextTakenFrom(MainCaller, frame[MainCaller].resp.body)
                => IdOfLastRequest(frame[MainCaller].resp.body))
    /\ SseAnswered(MainCaller)
          => \A i \in 1..Len(frame[MainCaller].resp.lines) :
                (/\ IsDataLine(frame[MainCaller].resp.lines[i])
                 /\ TextTakenFrom(MainCaller, frame[MainCaller].resp.lines[i].payload))
                    => IdOfLastRequest(frame[MainCaller].resp.lines[i].payload)

\* The payload is a JSON-RPC error envelope with a message, and no result.
IsErrorEnvelope(payload) ==
    /\ IsDict(payload)
    /\ HasKey(payload, "error")
    /\ ~HasKey(payload, "result")
    /\ IsDict(Get(payload, "error"))
    /\ HasKey(Get(payload, "error"), "message")
    /\ IsStr(Get(Get(payload, "error"), "message"))

\* C26: when the event stream that answers tools/call carries a JSON-RPC
\* error envelope in a data line, and a result in none, call_tool() returns
\* a string that contains the server's message.
C26_SseErrorSurfaced ==
    \A c \in Callers :
        SseAnswered(c)
            => LET lines == frame[c].resp.lines
               IN \A i \in 1..Len(lines) :
                     (/\ IsDataLine(lines[i])
                      /\ IsErrorEnvelope(lines[i].payload)
                      /\ \A j \in 1..Len(lines) :
                            ~(IsDict(lines[j].payload) /\ HasKey(lines[j].payload, "result")))
                         => /\ frame[c].out.kind = "return"
                            /\ IsStr(frame[c].out.val)
                            /\ Contains(frame[c].out.val.s,
                                        Get(Get(lines[i].payload, "error"), "message").s)

(***************************************************************************)
(* Properties of the dispatch loop's replies and tool results.             *)
(***************************************************************************)
\* A reply of the model without tool calls.
IsFinalReply(reply) == reply.kind = "message" /\ reply.tool_calls = <<>>

\* C27: when a reply of the model has no tool calls the loop is done at
\* once: the step that receives the reply returns its content and invokes
\* no call_tool(), posts nothing, and no reply of the model follows it.
C27_FinalReply ==
    /\ [](\A i \in 1..Len(replies) :
            IsFinalReply(replies[i])
                => /\ i = Len(replies)
                   /\ loop_pc = "done"
                   /\ answer = Ret(replies[i].content))
    /\ [][(Len(replies') = Len(replies) + 1 /\ IsFinalReply(replies'[Len(replies')]))
            => /\ loop_pc' = "done"
               /\ calls' = calls
               /\ sent' = sent
               /\ pc' = pc]_vars

\* The model has answered without tool calls after a reply whose tool call
\* was dispatched: the loop is done with that answer.
C27_Witness ==
    /\ loop_pc = "done"
    /\ Len(replies) >= 2
    /\ IsFinalReply(replies[Len(replies)])
    /\ answer = Ret(JStr("answer"))
    /\ calls >= 1

\* The positions of msgs that hold the result of the tool call id.
ResultsOf(msgs, id) ==
    {q \in 1..Len(msgs) : msgs[q].role = "tool" /\ msgs[q].tool_call_id = id}

\* The first k tool calls of the assistant record at position p of msgs
\* are answered right after it, in their order, once each.
AnsweredInOrder(msgs, p, k) ==
    /\ p + k <= Len(msgs)
    /\ \A j \in 1..k :
          /\ msgs[p + j].role = "tool"
          /\ msgs[p + j].tool_call_id = msgs[p].tool_calls[j].id
          /\ ResultsOf(msgs, msgs[p].tool_calls[j].id) = {p + j}

\* Every tool result of msgs comes after the assistant record that lists
\* its id.
ResultsFollowRecords(msgs) ==
    \A q \in 1..Len(msgs) :
        msgs[q].role = "tool"
            => \E p \in 1..(q - 1) :
                   /\ msgs[p].role = "assistant"
                   /\ \E j \in 1..Len(msgs[p].tool_calls) :
                          msgs[p].tool_calls[j].id = msgs[q].tool_call_id /\ q = p + j

\* C28: in every message sequence submitted to the model, each tool-call id
\* of an assistant record is followed by exactly one tool result tagged
\* with it, in the order of the calls, and every tool result follows its
\* record; while a tool call of a reply is dispatched, the record of the
\* reply and the results of the calls before it, in their order, end the
\* messages: the calls of one reply run one after another.
C28_ToolResultsPaired ==
    /\ \A n \in 1..Len(submitted) :
          /\ \A p \in 1..Len(submitted[n]) :
                AnsweredInOrder(submitted[n], p, Len(submitted[n][p].tool_calls))
          /\ ResultsFollowRecords(submitted[n])
    /\ loop_pc = "tool"
          => LET p == Len(messages) - (tool_index - 1)
             IN /\ p >= 1
                /\ messages[p].role = "assistant"
                /\ messages[p].tool_calls = tool_calls
                /\ tool_index \in 1..Len(tool_calls)
                /\ AnsweredInOrder(messages, p, tool_index - 1)
                /\ frame[MainCaller].op = "call_tool"

\* The model is called with messages that hold the record of a reply with
\* two tool calls and, after it, the results of both.
C28_Witness ==
    /\ loop_pc = "model"
    /\ LET msgs == submitted[Len(submitted)]
       IN \E p \in 1..Len(msgs) :
              /\ Len(msgs[p].tool_calls) = 2
              /\ AnsweredInOrder(msgs, p, 2)
              /\ msgs[p + 1].tool_call_id # msgs[p + 2].tool_call_id

\* The call_tool() of the tool call being dispatched has returned an error
\* text, which the loop has not yet taken.
CallFailed ==
    /\ loop_pc = "tool"
    /\ pc[MainCaller] = "idle"
    /\ frame[MainCaller].out.kind = "return"
    /\ IsStr(frame[MainCaller].out.val)
    /\ StartsWith(frame[MainCaller].out.val.s, "Error")

\* The tool call dispatched is the last of its reply.
LastOfReply == tool_index = Len(tool_calls)

\* C29 as stated: after a call_tool() failure the loop goes on as long as
\* the iteration cap is not reached.
C29_Original ==
    [][(CallFailed /\ iteration < max_iterations) => loop_pc' # "done"]_vars

\* C29: the error text a failed call_tool() returned is appended as the
\* tool result of that call; after the last call of a reply the model is
\* called again with it while the iteration cap is not reached; before
\* that the next call of the reply is dispatched, and the loop ends there
\* only if the arguments of that call are no JSON text.
C29_FailureFedBack ==
    [][CallFailed
        => /\ messages' = Append(messages,
                                 Message("tool", frame[MainCaller].out.val, <<>>,
                                         tool_calls[tool_index].id))
           /\ (LastOfReply /\ iteration < max_iterations)
                 => /\ loop_pc' = "model"
                    /\ submitted' = Append(submitted, messages')
           /\ (LastOfReply /\ iteration >= max_iterations)
                 => loop_pc' = "done" /\ answer' = Ret(JStr(Apology))
           /\ ~LastOfReply
                 => IF ArgumentsParse([tool_calls |-> <<tool_calls[tool_index + 1]>>])
                    THEN loop_pc' = "tool" /\ tool_index' = tool_index + 1
                    ELSE loop_pc' = "done"]_vars

\* The model is called again with messages that end with the error text of
\* the failed tool call.
C29_Witness ==
    /\ loop_pc = "model"
    /\ submitted[Len(submitted)] = messages
    /\ messages[Len(messages)].role = "tool"
    /\ IsStr(messages[Len(messages)].content)
    /\ StartsWith(messages[Len(messages)].content.s, "Error calling tool: ")

(***************************************************************************)
(* Properties of the tasks that share the client.                          *)
(***************************************************************************)
\* The tasks whose call_tool() invocation is in flight: started and at an
\* await.
InFlight == {c \in Callers : pc[c] # "idle" /\ frame[c].op = "call_tool"}

\* C30: at no moment are two call_tool() invocations in flight on the
\* shared client.
C30_OneAtATime == Cardinality(InFlight) <= 1

\* The places in sent of the requests of a method.
Posts(method) == {i \in 1..Len(sent) : sent[i].method = method}

\* C32: with call_tool() coroutines of several tasks interleaved at their
\* awaits, no two tools/call requests carry the same id, and the id of each
\* is the value the counter was given when the request was built: the
\* tools/call ids are 1, 2, ... in the order of the posts.
C32_DistinctIds ==
    /\ \A i, j \in Posts("tools/call") : i # j => sent[i].id # sent[j].id
    /\ \A i \in Posts("tools/call") :
          sent[i].id = Cardinality({j \in Posts("tools/call") : j <= i})
    /\ request_id = Cardinality(Posts("tools/call"))

\* The call_tool() invocations of two tasks are both waiting for the answer
\* to their tools/call request.
C32_Witness ==
    /\ \A c \in Callers : pc[c] = "tool_wait" /\ frame[c].op = "call_tool"
    /\ Cardinality(Posts("tools/call")) >= 2

\* C33: the handshake is performed at most once for the session: at most
\* one initialize request and at most one notifications/initialized are
\* posted.
C33_HandshakeOnce ==
    /\ Cardinality(Posts("initialize")) <= 1
    /\ Cardinality(Posts("notifications/initialized")) <= 1

(***************************************************************************)
(* Properties of the session's state over the invocations.                 *)
(***************************************************************************)
\* A step posts a request of the method.
PostsNow(method) ==
    /\ Len(sent') > Len(sent)
    /\ sent'[Len(sent')].method = method

\* C34: once initialized is true it stays true, and from then on no
\* initialize and no notifications/initialized request is posted.
C34_InitializedForGood ==
    [][initialized
        => /\ initialized'
           /\ ~PostsNow("initialize")
           /\ ~PostsNow("notifications/initialized")]_vars

\* The initialize() of caller c yields False in this step.
InitializeFails(c) ==
    /\ pc[c] # "idle"
    /\ pc'[c] = "idle"
    /\ frame'[c].op = "initialize"
    /\ frame'[c].out = Ret(JBool(FALSE))

\* C35: when an initialize() yields False, session_id and initialized are
\* what they were when the invocation posted its initialize request, at its
\* start, and request_id is unchanged.
C35_FailedInitializeNoEffect ==
    [][\A c \in Callers :
          InitializeFails(c)
              => LET first == sent'[Len(sent') - frame'[c].nsent + 1]
                 IN /\ first.method = "initialize"
                    /\ session_id' = first.session_id
                    /\ initialized' = first.initialized
                    /\ request_id' = request_id]_vars

(***************************************************************************)
(* Properties of the client with the Lambda responder as its server.       *)
(***************************************************************************)
\* C36: with the Lambda responder as the server the handshake succeeds:
\* every initialize() that has yielded, invoked by a caller or by
\* call_tool(), has yielded True and the session is initialized.
C36_HandshakeSucceeds ==
    \A c \in Callers :
        frame[c].init # NotYet => (frame[c].init = Ret(JBool(TRUE)) /\ initialized)

\* The call_tool() of the main caller has returned and its tools/call
\* request is the request the responder handled last.
CallServed ==
    /\ pc[MainCaller] = "idle"
    /\ frame[MainCaller].op = "call_tool"
    /\ frame[MainCaller].at = "tools/call"
    /\ CarriesToolsCall(served.event)
    /\ RpcId(served.event) = JInt(sent[Len(sent)].id)
    /\ CallName(served.event) = JStr(frame[MainCaller].name)

\* What the registered tool of the request handled last yielded.
ToolYielded ==
    CallFn(served.invoked[1].fn, served.invoked[1].arguments, served.feed)

\* C37: through the Lambda responder, call_tool(name, arguments) returns
\* exactly the string the registered tool returned, and for a name that is
\* not registered an error string that contains "Unknown tool: <name>".
C37_EndToEnd ==
    /\ (CallServed /\ Len(served.invoked) = 1 /\ ToolYielded.kind = "return"
         /\ IsStr(ToolYielded.val))
          => frame[MainCaller].out = ToolYielded
    /\ (CallServed /\ ~DictHas(tools, frame[MainCaller].name))
          => /\ served.invoked = <<>>
             /\ frame[MainCaller].out.kind = "return"
             /\ IsStr(frame[MainCaller].out.val)
             /\ Contains(frame[MainCaller].out.val.s,
                         "Unknown tool: " \o frame[MainCaller].name)

\* call_tool("get_aws_feed_news", {"max_articles": 1}) has returned the one
\* entry of the feed the tool formatted, a text of two lines.
C37_Witness ==
    /\ CallServed
    /\ frame[MainCaller].name = "get_aws_feed_news"
    /\ Len(served.invoked) = 1
    /\ frame[MainCaller].out = Ret(JStr("- Amazon S3 Update\n  https://aws.amazon.com/s3"))

(***************************************************************************)
(* Properties of the loop at the iteration cap and of its messages.        *)
(***************************************************************************)
\* chat_with_llm() has returned the apology.
CapReached == loop_pc = "done" /\ answer = Ret(JStr(Apology))

RECURSIVE ToolCallsOf(_)
\* The number of tool calls the replies request.
ToolCallsOf(rs) == IF rs = <<>> THEN 0 ELSE Len(rs[1].tool_calls) + ToolCallsOf(Tail(rs))

\* C38: when the apology is returned the model has been called exactly
\* max_iterations = 5 times; every tool call of the fifth reply has been
\* executed through call_tool(), the last of them in the step before the
\* return, and its result appended; and the messages with those results
\* were never submitted to the model.
C38_CapAfterLastCalls ==
    /\ [](CapReached
            => /\ Len(replies) = max_iterations
               /\ Len(submitted) = max_iterations
               /\ replies[max_iterations].tool_calls # <<>>
               /\ GrownBy(submitted[max_iterations], messages, replies[max_iterations])
               /\ calls = ToolCallsOf(replies)
               /\ Cardinality(Posts("tools/call")) = ToolCallsOf(replies)
               /\ \A n \in 1..Len(submitted) : submitted[n] # messages)
    /\ [][(~CapReached /\ CapReached')
            => /\ loop_pc = "tool"
               /\ tool_index = Len(tool_calls)
               /\ frame[MainCaller].op = "call_tool"
               /\ frame[MainCaller].out.kind = "return"
               /\ messages'[Len(messages')].content = frame[MainCaller].out.val
               /\ replies' = replies]_vars

\* The apology has been returned after a fifth reply with two tool calls,
\* both executed.
C38_Witness ==
    /\ CapReached
    /\ Len(replies[max_iterations].tool_calls) = 2
    /\ messages[Len(messages)].role = "tool"
    /\ messages[Len(messages)].tool_call_id = replies[max_iterations].tool_calls[2].id

\* Sequence s starts with sequence p.
Extends(s, p) == Len(s) >= Len(p) /\ SubSeq(s, 1, Len(p)) = p

\* C39: the caller's conversation_history is one of the lists given and is
\* not changed while chat_with_llm() runs; the first submission is the
\* system message, the history and the user message; every later submission
\* extends the one before it by at least two entries, and messages always
\* extends the last submission.
C39_HistoryKeptAppendOnly ==
    /\ [][loop_pc # "idle" => conversation_history' = conversation_history]_vars
    /\ [](loop_pc # "idle"
            => /\ conversation_history \in Histories
               /\ submitted[1] = <<system_message>> \o conversation_history.items
                                    \o <<UserMessage("hi")>>
               /\ \A n \in 2..Len(submitted) :
                     /\ Extends(submitted[n], submitted[n - 1])
                     /\ Len(submitted[n]) >= Len(submitted[n - 1]) + 2
               /\ Extends(messages, submitted[Len(submitted)]))

\* The model is called a third time, with a history of two entries given:
\* the third submission extends the second, which extends the first.
C39_Witness ==
    /\ loop_pc = "model"
    /\ Len(submitted) = 3
    /\ conversation_history.given
    /\ Len(conversation_history.items) = 2
    /\ Len(submitted[3]) > Len(submitted[2])

(***************************************************************************)
(* Properties of the program's exit.                                       *)
(***************************************************************************)
\* C31: on every exit path of main(), the early return for missing
\* environment variables included, close() of the client constructed at the
\* load of the module has been executed.
C31_ClosedOnExit == main_pc = "exited" => closed

====
